---- MODULE Spec2Model ----
(***************************************************************************)
(* SMM Matrix (smm-matrix-node.js): the relational store, the cookie       *)
(* session and the request handlers of the Express application, as a       *)
(* state machine.  One action per (method, path) handler; a handler is one *)
(* atomic step (Node runs it to completion, better-sqlite3 is synchronous) *)
(* except in SpecStmt, where the statements of POST /signup are separate   *)
(* steps and a statement may throw.                                        *)
(*                                                                         *)
(* Columns that no handler reads back in a decision (name, instagram,      *)
(* created_at, the text columns of posts, targets, statuses and tickets)   *)
(* are left out of the rows, and so are the tables plans (a constant),     *)
(* reviews and subscribers.                                                *)
(***************************************************************************)
EXTENDS Integers, Sequences, FiniteSets, TLC

VARIABLES users, statuses, targets, metrics, orders, tickets, posts, seq,
          session, now, resp, proc

store == <<users, statuses, targets, metrics, orders, tickets, posts, seq>>
vars == <<users, statuses, targets, metrics, orders, tickets, posts, seq,
          session, now, resp, proc>>

----------------------------------------------------------------------------
(* JavaScript values *)

\* a key that is absent from an object (undefined)
UNDEF == -1
\* the JavaScript null
NULL == -2

\* the truthiness test of `x && ...`, `x || y`, `!x` for the numbers,
\* null and undefined held in a session
Truthy(x) == x \notin {UNDEF, NULL, 0}

\* x || 0
OrZero(x) == IF Truthy(x) THEN x ELSE 0

\* Math.ceil(a / b) for b > 0
Ceil(a, b) == -((-a) \div b)

\* NaN, the value of Number(text) for a text that is no number
NaN == -1000000

\* Math.max(0, x): NaN when x is NaN
Max0(x) == IF x = NaN THEN NaN ELSE IF x > 0 THEN x ELSE 0

\* the value a statement stores for a bound JavaScript number: SQLite
\* stores NULL for NaN
BindNumber(x) == IF x = NaN THEN NULL ELSE x

----------------------------------------------------------------------------
(* Text: an email is a sequence of characters, so that toLowerCase is      *)
(* computed character by character.                                        *)

UpperCase == <<"A","B","C","D","E","F","G","H","I","J","K","L","M",
               "N","O","P","Q","R","S","T","U","V","W","X","Y","Z">>
LowerCase == <<"a","b","c","d","e","f","g","h","i","j","k","l","m",
               "n","o","p","q","r","s","t","u","v","w","x","y","z">>

LowerChar(c) ==
  IF \E i \in 1..26 : UpperCase[i] = c
  THEN LowerCase[CHOOSE i \in 1..26 : UpperCase[i] = c]
  ELSE c

\* an email stored as it was typed
toLowerCaseNot(s) == s

\* String(s).toLowerCase()
toLowerCase(s) == [i \in 1..Len(s) |-> LowerChar(s[i])]

\* sha256(s): the hex digest, a value that is never the password itself and
\* differs for different passwords (no collision among the few inputs).
sha256(s) == <<"sha256", s>>

AdminEmail == <<"a","d","m","i","n","@","s","m","m",".","l","o","c","a","l">>
StaffEmail == <<"s","t","a","f","f","@","s","m","m",".","l","o","c","a","l">>
UserEmail == <<"u","s","e","r","@","s","m","m",".","l","o","c","a","l">>
UserEmailMixed == <<"U","s","e","r","@","S","M","M",".","l","o","c","a","l">>
NewEmail == <<"a","@","b">>
NewEmailMixed == <<"A","@","B">>
NoEmail == <<>>

\* a body field that is absent or empty
NoText == <<>>

DigitValue == [c \in {"0", "1", "2", "3", "4", "5", "6", "7", "8", "9"} |->
                 CASE c = "0" -> 0 [] c = "1" -> 1 [] c = "2" -> 2
                   [] c = "3" -> 3 [] c = "4" -> 4 [] c = "5" -> 5
                   [] c = "6" -> 6 [] c = "7" -> 7 [] c = "8" -> 8
                   [] c = "9" -> 9]

\* the value of a run of decimal digits after the digits read so far gave
\* acc; NaN when a character is no digit
RECURSIVE DigitsValue(_, _)
DigitsValue(s, acc) ==
  IF s = <<>> THEN acc
  ELSE IF Head(s) \notin DOMAIN DigitValue THEN NaN
  ELSE DigitsValue(Tail(s), acc * 10 + DigitValue[Head(s)])

\* Number(text || 0) for the texts used here: nothing, an optional minus
\* sign and decimal digits, or anything else
Number(s) ==
  IF s = NoText THEN 0
  ELSE IF Head(s) = "-"
  THEN IF Tail(s) = <<>> \/ DigitsValue(Tail(s), 0) = NaN THEN NaN
       ELSE 0 - DigitsValue(Tail(s), 0)
  ELSE DigitsValue(s, 0)

----------------------------------------------------------------------------
(* Bounds of the model *)

\* largest users.id ever handed out (3 seeded users + the rest)
MaxUserId == 4
\* largest metrics.id ever handed out
MaxMetricId == 4
\* largest targets.id a restart hands out
MaxTargetId == 8
\* largest orders.id ever handed out
MaxOrderId == 1
\* most rows of an orders table given as input
MaxOrders == 2
\* largest tickets.id ever handed out
MaxTicketId == 1
\* largest posts.id ever handed out (6 seeded posts + the rest)
MaxPostId == 7
\* a post is not viewed more often than this
MaxViews == 2
\* failed_login is not counted beyond this value
MaxFailed == 7
\* the clock may advance by at most this much between two reads of
\* Date.now() inside one handler
MaxSkew == 500

Sessions == {"A", "B"}

\* the wall-clock instants (ms) at which a request may arrive
Instants == {0, 500, 299500, 300000, 300500, 600500}

\* what Date.now() may return when it is read again after it returned t
LaterReads(t) == {t2 \in Instants : t <= t2 /\ t2 <= t + MaxSkew}

\* request inputs
\* the Accept header: without and with text/html
AcceptInputs == {<<"*/*">>, <<"text/html", "*/*">>}
\* add_likes / add_follows of POST /staff/metrics
DeltaInputs == {<<"-", "3">>, <<"7">>}
PlanIdInputs == {0, 2}

----------------------------------------------------------------------------
(* Program constants *)

\* failed attempts at which the session is locked
LockThreshold == 6
\* length of the lockout, 5 * 60 * 1000 ms
LockMs == 5 * 60 * 1000

\* plans seeded by initDb: id |-> price_usd
Plans == [i \in 1..3 |-> <<49, 69, 129>>[i]]

\* the (likes, follows) initDb draws for a seeded user's first metric,
\* floor(random*200)+50 and floor(random*100)+20: the draw explored
SeedMetricDraws == {<<50, 20>>}

----------------------------------------------------------------------------
(* Responses *)

Response(route, s, code, loc, msg, wait, q) ==
  [route |-> route, s |-> s, code |-> code, loc |-> loc, msg |-> msg,
   wait |-> wait, q |-> q, body |-> {}]

\* the rows a view renders
WithBody(r, rows) == [r EXCEPT !.body = rows]

NoResponse == Response("", "", 0, "", "", 0, {})

\* res.redirect(loc)
Redirect(route, s, loc, q) == Response(route, s, 302, loc, "", 0, q)
\* res.send(view) with an optional inline error
View(route, s, msg, q) == Response(route, s, 200, "", msg, 0, q)
\* res.status(code).send(msg)
Status(route, s, code, msg, q) == Response(route, s, code, "", msg, 0, q)

----------------------------------------------------------------------------
(* Session and principal *)

EmptySession == [uid |-> UNDEF, failed_login |-> UNDEF,
                 login_locked_until |-> UNDEF]

\* authed(req), were the role that of the row as first stored (a role kept
\* from the time the session began) and not the one stored now
authedFirstRole(s) ==
  IF Truthy(session[s].uid)
  THEN {[u EXCEPT !.role = IF u.id = 1 THEN "admin"
                           ELSE IF u.id = 2 THEN "staff" ELSE "user"] :
          u \in {v \in users : v.id = session[s].uid}}
  ELSE {}

\* authed(req): the user rows (none or one) the session's uid resolves to
authed(s) ==
  IF Truthy(session[s].uid)
  THEN {u \in users : u.id = session[s].uid}
  ELSE {}

\* the user-table reads of authed(req): one SELECT by id when uid is set
authedReads(s) == IF Truthy(session[s].uid) THEN {"users.id"} ELSE {}

----------------------------------------------------------------------------
(* Initial state: a fresh database after initDb(), empty sessions *)

SeedUsers ==
  { [id |-> 1, email |-> AdminEmail, password_hash |-> sha256("admin123"),
     role |-> "admin", unsubscribed |-> 0],
    [id |-> 2, email |-> StaffEmail, password_hash |-> sha256("staff123"),
     role |-> "staff", unsubscribed |-> 0],
    [id |-> 3, email |-> UserEmail, password_hash |-> sha256("user123"),
     role |-> "user", unsubscribed |-> 0] }

IdleProc == [pc |-> "idle", s |-> "", email |-> NoEmail, password |-> "",
             uid |-> UNDEF]

Init ==
  /\ users = SeedUsers
  /\ statuses = {[id |-> i, user_id |-> i] : i \in 1..3}
  /\ targets = {[id |-> i, user_id |-> i] : i \in 1..3}
  /\ \E d \in [1..3 -> SeedMetricDraws] :
       metrics = {[id |-> i, user_id |-> i, likes |-> d[i][1],
                   follows |-> d[i][2]] : i \in 1..3}
  /\ orders = {}
  /\ tickets = {}
  /\ posts = {[id |-> i, views |-> 0] : i \in 1..6}
  /\ seq = [users |-> 3, statuses |-> 3, targets |-> 3, metrics |-> 3,
            orders |-> 0, tickets |-> 0, posts |-> 6]
  /\ session = [s \in Sessions |-> EmptySession]
  /\ now = 0
  /\ resp = NoResponse
  /\ proc = IdleProc

----------------------------------------------------------------------------
(* Clock *)

\* wall-clock time passes between two requests
Tick ==
  /\ \E t \in Instants : t > now /\ now' = t
  /\ UNCHANGED <<store, session, resp, proc>>

----------------------------------------------------------------------------
(* POST /login, GET /logout *)

\* every successful login sent to the home page
LoginRedirectHome(role) == "/"

\* the redirect target of a successful login
LoginRedirect(role) ==
  IF role = "admin" THEN "/dashboard"
  ELSE IF role = "staff" THEN "/staff"
  ELSE "/"

\* a failed attempt after the lock has run out counted as the first one
FailedSessionFresh(ses, t) ==
  LET over == Truthy(ses.login_locked_until) /\ t >= ses.login_locked_until
      n == IF over THEN 1 ELSE OrZero(ses.failed_login) + 1
  IN [ses EXCEPT !.failed_login = n,
                 !.login_locked_until =
                    IF n >= LockThreshold THEN t + LockMs
                    ELSE IF over THEN NULL ELSE @]

\* the lock set one attempt late: > instead of >=
FailedSessionLate(ses, t) ==
  LET n == OrZero(ses.failed_login) + 1
  IN [ses EXCEPT !.failed_login = n,
                 !.login_locked_until =
                    IF n > LockThreshold THEN t + LockMs ELSE @]

\* the session after a failed attempt at time t
FailedSession(ses, t) ==
  LET n == OrZero(ses.failed_login) + 1
  IN [ses EXCEPT !.failed_login = n,
                 !.login_locked_until =
                    IF n >= LockThreshold THEN t + LockMs ELSE @]

\* a successful login that forgets to reset failed_login
LoggedInSessionKeepsCount(ses, row) ==
  [ses EXCEPT !.login_locked_until = NULL, !.uid = row.id]

\* the session after a successful login as row
LoggedInSession(ses, row) ==
  [ses EXCEPT !.failed_login = 0, !.login_locked_until = NULL,
              !.uid = row.id]

\* the lockout test of line 1263
Locked(ses, t) ==
  Truthy(ses.login_locked_until) /\ t < ses.login_locked_until

\* one session record kept for every client
reqSessionShared(s) == session["A"]

\* req.session: the session of the cookie the request carries
reqSession(s) == session[s]

Login(s, email, password) ==
  LET ses == reqSession(s)
      lockedUntil == ses.login_locked_until
      mw == authedReads(s)
  IN
  /\ IF Locked(ses, now)
     THEN \E t2 \in LaterReads(now) :
            /\ resp' = Response("POST /login", s, 200, "", "Too many attempts",
                                Ceil(lockedUntil - t2, 1000), mw)
            /\ now' = t2
            /\ UNCHANGED session
     ELSE LET rows == {u \in users : u.email = toLowerCase(email)}
              ok == {u \in rows : u.password_hash = sha256(password)}
              q == mw \cup {"users.email"}
          IN IF ok # {}
             THEN LET row == CHOOSE u \in ok : TRUE
                  IN /\ session' = [session EXCEPT
                                      ![s] = LoggedInSession(ses, row)]
                     /\ resp' = Redirect("POST /login", s,
                                         LoginRedirect(row.role), q)
                     /\ UNCHANGED now
             ELSE /\ OrZero(ses.failed_login) < MaxFailed
                  /\ \E t2 \in LaterReads(now) :
                       /\ OrZero(ses.failed_login) + 1 < LockThreshold
                            => t2 = now
                       /\ session' = [session EXCEPT
                                        ![s] = FailedSession(ses, t2)]
                       /\ now' = t2
                  /\ resp' = View("POST /login", s, "Invalid credentials", q)
  /\ UNCHANGED <<store, proc>>

\* a logout that only forgets the user: delete req.session.uid
LogoutUidOnly(s) ==
  /\ session' = [session EXCEPT ![s].uid = UNDEF]
  /\ resp' = Redirect("GET /logout", s, "/", authedReads(s))
  /\ UNCHANGED <<store, now, proc>>

\* req.session = null: the cookie is dropped, the next request of this
\* client starts from an empty session
Logout(s) ==
  /\ session' = [session EXCEPT ![s] = EmptySession]
  /\ resp' = Redirect("GET /logout", s, "/", authedReads(s))
  /\ UNCHANGED <<store, now, proc>>

----------------------------------------------------------------------------
(* Store statements *)

\* the id of an inserted row, were the key a plain rowid: one more than
\* the largest id in the table
RowidPlusOne(rows, last) ==
  IF rows = {} THEN 1
  ELSE (CHOOSE i \in {r.id : r \in rows} : \A r \in rows : r.id <= i) + 1

\* id INTEGER PRIMARY KEY AUTOINCREMENT: one more than the largest id the
\* table has ever held (last, kept in sqlite_sequence)
AutoIncrement(rows, last) == last + 1

UserRow(id, email, hash, role) ==
  [id |-> id, email |-> email, password_hash |-> hash, role |-> role,
   unsubscribed |-> 0]

\* INSERT OR IGNORE INTO statuses(user_id): user_id is UNIQUE
InsertStatus(rows, id, uid) ==
  IF \E r \in rows : r.user_id = uid THEN rows
  ELSE rows \cup {[id |-> id, user_id |-> uid]}

\* INSERT OR IGNORE INTO targets(user_id, ...): no constraint can fail
InsertTargets(rows, id, uid) == rows \cup {[id |-> id, user_id |-> uid]}

\* INSERT [OR IGNORE] INTO metrics(user_id, likes, follows)
InsertMetric(rows, id, uid, likes, follows) ==
  rows \cup {[id |-> id, user_id |-> uid, likes |-> likes,
              follows |-> follows]}

\* the AUTOINCREMENT counter of a table after a statement: it moves only
\* when the statement added a row
Bump(old, new, n) == IF new = old THEN n ELSE n + 1

----------------------------------------------------------------------------
(* POST /signup, as one step *)

\* the role of the inserted row, with a role field of the body honoured
SignupRoleFromBody(roleIn) == IF roleIn = "" THEN "user" ELSE roleIn

\* the role of the inserted row: the literal 'user'; a role field of the
\* request body is never read
SignupRole(roleIn) == "user"

Signup(s, email, password, roleIn) ==
  LET mw == authedReads(s)
      e == toLowerCase(email)
      uid == AutoIncrement(users, seq.users)
      st == InsertStatus(statuses, seq.statuses + 1, uid)
  IN
  /\ IF email = NoEmail \/ password = ""
     THEN /\ resp' = View("POST /signup", s, "Email & password required", mw)
          /\ UNCHANGED <<store, session>>
     ELSE IF \E u \in users : u.email = e
     THEN \* the INSERT violates UNIQUE(email) and throws
          /\ resp' = View("POST /signup", s, "Email already exists", mw)
          /\ UNCHANGED <<store, session>>
     ELSE /\ seq.users < MaxUserId
          /\ seq.metrics < MaxMetricId
          /\ users' = users \cup {UserRow(uid, e, sha256(password),
                                          SignupRole(roleIn))}
          /\ statuses' = st
          /\ targets' = InsertTargets(targets, seq.targets + 1, uid)
          /\ metrics' = InsertMetric(metrics, seq.metrics + 1, uid, 10, 8)
          /\ seq' = [seq EXCEPT !.users = uid,
                                !.statuses = Bump(statuses, st, @),
                                !.targets = @ + 1,
                                !.metrics = @ + 1]
          /\ session' = [session EXCEPT ![s].uid = uid]
          /\ resp' = Redirect("POST /signup", s, "/",
                              mw \cup {"users.email"})
          /\ UNCHANGED <<orders, tickets, posts>>
  /\ UNCHANGED <<now, proc>>

----------------------------------------------------------------------------
(* POST /signup, statement by statement.  proc holds the request in flight: *)
(* the statement it executes next and its locals.  A dependent INSERT may   *)
(* throw (SQLITE_BUSY, SQLITE_FULL, ...); whatever is thrown inside the try *)
(* block is caught and reported as 'Email already exists'.                  *)

\* the catch block
SignupCatch ==
  /\ resp' = View("POST /signup", proc.s, "Email already exists",
                  authedReads(proc.s) \cup {"users.email"})
  /\ proc' = [proc EXCEPT !.pc = "idle"]

\* lines 1287-1288: the presence check
SignupBegin(s, email, password, roleIn) ==
  /\ proc.pc = "idle"
  /\ IF email = NoEmail \/ password = ""
     THEN /\ resp' = View("POST /signup", s, "Email & password required",
                          authedReads(s))
          /\ proc' = [IdleProc EXCEPT !.s = s, !.email = email,
                                      !.password = password]
     ELSE /\ proc' = [pc |-> "ins_user", s |-> s, email |-> email,
                      password |-> password, uid |-> UNDEF]
          /\ UNCHANGED resp
  /\ UNCHANGED <<store, session, now>>

\* line 1290: INSERT INTO users
SignupInsertUser ==
  LET e == toLowerCase(proc.email)
      id == AutoIncrement(users, seq.users)
  IN
  /\ proc.pc = "ins_user"
  /\ IF \E u \in users : u.email = e
     THEN SignupCatch /\ UNCHANGED <<users, seq>>
     ELSE /\ seq.users < MaxUserId
          /\ users' = users \cup {UserRow(id, e, sha256(proc.password),
                                          SignupRole(""))}
          /\ seq' = [seq EXCEPT !.users = id]
          /\ proc' = [proc EXCEPT !.pc = "sel_id"]
          /\ UNCHANGED resp
  /\ UNCHANGED <<statuses, targets, metrics, orders, tickets, posts, session,
                 now>>

\* line 1292: SELECT id FROM users WHERE email=?  (.id of no row throws)
SignupSelectId ==
  LET rows == {u \in users : u.email = toLowerCase(proc.email)}
  IN
  /\ proc.pc = "sel_id"
  /\ IF rows = {}
     THEN SignupCatch
     ELSE /\ proc' = [proc EXCEPT !.pc = "ins_status",
                                  !.uid = (CHOOSE u \in rows : TRUE).id]
          /\ UNCHANGED resp
  /\ UNCHANGED <<store, session, now>>

\* line 1293: INSERT OR IGNORE INTO statuses
SignupInsertStatus(throws) ==
  LET st == InsertStatus(statuses, seq.statuses + 1, proc.uid)
  IN
  /\ proc.pc = "ins_status"
  /\ IF throws
     THEN SignupCatch /\ UNCHANGED <<statuses, seq>>
     ELSE /\ statuses' = st
          /\ seq' = [seq EXCEPT !.statuses = Bump(statuses, st, @)]
          /\ proc' = [proc EXCEPT !.pc = "ins_targets"]
          /\ UNCHANGED resp
  /\ UNCHANGED <<users, targets, metrics, orders, tickets, posts, session,
                 now>>

\* line 1294: INSERT OR IGNORE INTO targets
SignupInsertTargets(throws) ==
  /\ proc.pc = "ins_targets"
  /\ IF throws
     THEN SignupCatch /\ UNCHANGED <<targets, seq>>
     ELSE /\ targets' = InsertTargets(targets, seq.targets + 1, proc.uid)
          /\ seq' = [seq EXCEPT !.targets = @ + 1]
          /\ proc' = [proc EXCEPT !.pc = "ins_metrics"]
          /\ UNCHANGED resp
  /\ UNCHANGED <<users, statuses, metrics, orders, tickets, posts, session,
                 now>>

\* line 1295: INSERT OR IGNORE INTO metrics
SignupInsertMetrics(throws) ==
  /\ proc.pc = "ins_metrics"
  /\ IF throws
     THEN SignupCatch /\ UNCHANGED <<metrics, seq>>
     ELSE /\ seq.metrics < MaxMetricId
          /\ metrics' = InsertMetric(metrics, seq.metrics + 1, proc.uid, 10, 8)
          /\ seq' = [seq EXCEPT !.metrics = @ + 1]
          /\ proc' = [proc EXCEPT !.pc = "finish"]
          /\ UNCHANGED resp
  /\ UNCHANGED <<users, statuses, targets, orders, tickets, posts, session,
                 now>>

\* lines 1296-1297: auto-login and redirect
SignupFinish ==
  /\ proc.pc = "finish"
  /\ session' = [session EXCEPT ![proc.s].uid = proc.uid]
  /\ resp' = Redirect("POST /signup", proc.s, "/",
                      authedReads(proc.s) \cup {"users.email"})
  /\ proc' = [proc EXCEPT !.pc = "idle"]
  /\ UNCHANGED <<store, now>>

----------------------------------------------------------------------------
(* Role gate *)

\* req.headers.accept && req.headers.accept.includes('text/html')
AcceptsHtml(accept) == \E i \in 1..Len(accept) : accept[i] = "text/html"

\* requireRole(req, res, roles) without the test of the role
requireRoleAnyRole(s, accept, roles) ==
  LET u == authed(s)
  IN IF u = {}
     THEN [me |-> {}, truthy |-> ~AcceptsHtml(accept), sent |-> TRUE,
           code |-> IF AcceptsHtml(accept) THEN 302 ELSE 403]
     ELSE [me |-> u, truthy |-> TRUE, sent |-> FALSE, code |-> 0]

\* requireRole(req, res, roles): me is the principal (no row when rejected),
\* truthy tells whether the returned value is truthy (res.redirect returns
\* undefined, res.status(403).send returns res), sent is res.headersSent
requireRole(s, accept, roles) ==
  LET u == authed(s)
  IN IF u = {} \/ (\A r \in u : r.role \notin roles)
     THEN [me |-> {}, truthy |-> ~AcceptsHtml(accept), sent |-> TRUE,
           code |-> IF AcceptsHtml(accept) THEN 302 ELSE 403]
     ELSE [me |-> u, truthy |-> TRUE, sent |-> FALSE, code |-> 0]

\* the allow-list of the staff routes with 'user' added
StaffOrAdminOrUser == {"user", "staff", "admin"}

\* `if (!me || res.headersSent) return;` with headersSent forgotten
GateAbortsOnFalsyOnly(g) == ~g.truthy

\* `if (!me || res.headersSent) return;`
GateAborts(g) == ~g.truthy \/ g.sent

\* the response the gate has sent
GateResponse(route, s, g) ==
  IF g.code = 302 THEN Redirect(route, s, "/login", authedReads(s))
  ELSE Status(route, s, 403, "Forbidden", authedReads(s))

\* the response of a handler: what was sent first stands
Sent(route, s, g, r) == IF g.sent THEN GateResponse(route, s, g) ELSE r

\* the allow-list of the admin routes, were staff let in as well
AdminOrStaff == {"staff", "admin"}

Admin == {"admin"}
StaffOrAdmin == {"staff", "admin"}

----------------------------------------------------------------------------
(* Admin routes *)

\* the sum of the prices of rows, each a (row id, price) pair
RECURSIVE SumPrices(_)
SumPrices(rows) ==
  IF rows = {} THEN 0
  ELSE LET r == CHOOSE x \in rows : TRUE
       IN r[2] + SumPrices(rows \ {r})

\* o JOIN plans p ON p.id = o.plan_id WHERE o.status = 'paid', wrongly
\* keeping the orders of every status
JoinAnyStatus(os) ==
  {<<o.id, Plans[o.plan_id]>> : o \in {x \in os : x.plan_id \in DOMAIN Plans}}

\* o JOIN plans p ON p.id = o.plan_id WHERE o.status = 'paid'
JoinPaid(os) ==
  {<<o.id, Plans[o.plan_id]>> :
     o \in {x \in os : x.plan_id \in DOMAIN Plans /\ x.status = "paid"}}

\* SELECT SUM(p.price_usd): NULL over no rows
SqlSum(rows) == IF rows = {} THEN NULL ELSE SumPrices(rows)

\* the stats object of GET /dashboard (the subscribers count left out)
DashboardStats ==
  [users |-> Cardinality(users),
   pendingOrders |-> Cardinality({o \in orders : o.status = "pending"}),
   declinedCount |-> Cardinality({o \in orders :
                                   o.status \in {"declined", "cancelled"}}),
   totalAccounting |-> OrZero(SqlSum(JoinPaid(orders)))]

\* GET /dashboard: reads only
Dashboard(s, accept) ==
  LET g == requireRole(s, accept, Admin)
      route == "GET /dashboard"
  IN
  /\ resp' = IF GateAborts(g) THEN GateResponse(route, s, g)
             ELSE Sent(route, s, g,
                       WithBody(View(route, s, "",
                                     authedReads(s) \cup {"users.all"}),
                                {DashboardStats}))
  /\ UNCHANGED <<store, session, now, proc>>

\* POST /admin/create_post
CreatePost(s, accept, title) ==
  LET g == requireRole(s, accept, Admin)
      route == "POST /admin/create_post"
  IN
  /\ IF GateAborts(g)
     THEN /\ resp' = GateResponse(route, s, g)
          /\ UNCHANGED store
     ELSE IF title = ""
     THEN /\ resp' = Sent(route, s, g,
                          Redirect(route, s, "/dashboard", authedReads(s)))
          /\ UNCHANGED store
     ELSE /\ seq.posts < MaxPostId
          /\ posts' = posts \cup {[id |-> seq.posts + 1, views |-> 0]}
          /\ seq' = [seq EXCEPT !.posts = @ + 1]
          /\ resp' = Sent(route, s, g,
                          Redirect(route, s, "/dashboard", authedReads(s)))
          /\ UNCHANGED <<users, statuses, targets, metrics, orders, tickets>>
  /\ UNCHANGED <<session, now, proc>>

\* POST /admin/assign_role
AssignRole(s, accept, emailIn, roleIn) ==
  LET g == requireRole(s, accept, Admin)
      route == "POST /admin/assign_role"
      email == toLowerCase(emailIn)
      role == IF roleIn = "" THEN "user" ELSE roleIn
  IN
  /\ IF GateAborts(g)
     THEN /\ resp' = GateResponse(route, s, g)
          /\ UNCHANGED store
     ELSE /\ users' = IF email = NoEmail THEN users
                      ELSE {IF u.email = email THEN [u EXCEPT !.role = role]
                            ELSE u : u \in users}
          /\ resp' = Sent(route, s, g,
                          Redirect(route, s, "/dashboard", authedReads(s)))
          /\ UNCHANGED <<statuses, targets, metrics, orders, tickets, posts,
                         seq>>
  /\ UNCHANGED <<session, now, proc>>

----------------------------------------------------------------------------
(* Staff routes *)

\* GET /staff: reads only
Staff(s, accept) ==
  LET g == requireRole(s, accept, StaffOrAdmin)
      route == "GET /staff"
  IN
  /\ resp' = IF GateAborts(g) THEN GateResponse(route, s, g)
             ELSE Sent(route, s, g,
                       View(route, s, "", authedReads(s) \cup {"users.all"}))
  /\ UNCHANGED <<store, session, now, proc>>

\* GET /staff/user_detail/:id: reads only
UserDetail(s, accept, id) ==
  LET g == requireRole(s, accept, StaffOrAdmin)
      route == "GET /staff/user_detail/:id"
      q == authedReads(s) \cup {"users.id"}
  IN
  /\ resp' = IF GateAborts(g) THEN GateResponse(route, s, g)
             ELSE Sent(route, s, g,
                       View(route, s,
                            IF \E u \in users : u.id = id THEN ""
                            ELSE "User not found", q))
  /\ UNCHANGED <<store, session, now, proc>>

\* POST /staff/add: targets are not inserted; a throwing INSERT is ignored
\* the role POST /staff/add inserts, were it the column default
AddedRoleDefault == "user"

\* the role POST /staff/add inserts
AddedRole == "staff"

StaffAdd(s, accept, emailIn, password) ==
  LET g == requireRole(s, accept, StaffOrAdmin)
      route == "POST /staff/add"
      e == toLowerCase(emailIn)
      id == AutoIncrement(users, seq.users)
      st == InsertStatus(statuses, seq.statuses + 1, id)
      done == Sent(route, s, g, Redirect(route, s, "/staff", authedReads(s)))
  IN
  /\ IF GateAborts(g)
     THEN /\ resp' = GateResponse(route, s, g)
          /\ UNCHANGED store
     ELSE IF emailIn = NoEmail \/ password = ""
     THEN /\ resp' = done
          /\ UNCHANGED store
     ELSE IF \E u \in users : u.email = e
     THEN /\ resp' = done
          /\ UNCHANGED store
     ELSE /\ seq.users < MaxUserId
          /\ seq.metrics < MaxMetricId
          /\ users' = users \cup {UserRow(id, e, sha256(password), AddedRole)}
          /\ statuses' = st
          /\ metrics' = InsertMetric(metrics, seq.metrics + 1, id, 0, 0)
          /\ seq' = [seq EXCEPT !.users = id,
                                !.statuses = Bump(statuses, st, @),
                                !.metrics = @ + 1]
          /\ resp' = [done EXCEPT !.q = @ \cup {"users.email"}]
          /\ UNCHANGED <<targets, orders, tickets, posts>>
  /\ UNCHANGED <<session, now, proc>>

\* UPDATE users SET role=? WHERE id=?, were it to insert the row it misses
SetRoleUpsert(rows, id, role) ==
  IF \E u \in rows : u.id = id
  THEN {IF u.id = id THEN [u EXCEPT !.role = role] ELSE u : u \in rows}
  ELSE rows \cup {UserRow(id, NoEmail, sha256(""), role)}

\* UPDATE users SET role=? WHERE id=?
SetRole(rows, id, role) ==
  {IF u.id = id THEN [u EXCEPT !.role = role] ELSE u : u \in rows}

\* POST /staff/promote
Promote(s, accept, id) ==
  LET g == requireRole(s, accept, StaffOrAdmin)
      route == "POST /staff/promote"
  IN
  /\ IF GateAborts(g)
     THEN /\ resp' = GateResponse(route, s, g)
          /\ UNCHANGED store
     ELSE /\ users' = SetRole(users, id, "staff")
          /\ resp' = Sent(route, s, g,
                          Redirect(route, s, "/staff", authedReads(s)))
          /\ UNCHANGED <<statuses, targets, metrics, orders, tickets, posts,
                         seq>>
  /\ UNCHANGED <<session, now, proc>>

\* POST /staff/demote
Demote(s, accept, id) ==
  LET g == requireRole(s, accept, StaffOrAdmin)
      route == "POST /staff/demote"
  IN
  /\ IF GateAborts(g)
     THEN /\ resp' = GateResponse(route, s, g)
          /\ UNCHANGED store
     ELSE /\ users' = SetRole(users, id, "user")
          /\ resp' = Sent(route, s, g,
                          Redirect(route, s, "/staff", authedReads(s)))
          /\ UNCHANGED <<statuses, targets, metrics, orders, tickets, posts,
                         seq>>
  /\ UNCHANGED <<session, now, proc>>

\* DELETE FROM t WHERE user_id=?
DeleteOf(rows, id) == {r \in rows : r.user_id # id}

\* DELETE FROM users WHERE id=?
DeleteUser(rows, id) == {u \in rows : u.id # id}

\* POST /staff/delete
StaffDelete(s, accept, id) ==
  LET g == requireRole(s, accept, StaffOrAdmin)
      route == "POST /staff/delete"
  IN
  /\ IF GateAborts(g)
     THEN /\ resp' = GateResponse(route, s, g)
          /\ UNCHANGED store
     ELSE /\ users' = DeleteUser(users, id)
          /\ targets' = DeleteOf(targets, id)
          /\ statuses' = DeleteOf(statuses, id)
          /\ metrics' = DeleteOf(metrics, id)
          /\ resp' = Sent(route, s, g,
                          Redirect(route, s, "/staff", authedReads(s)))
          /\ UNCHANGED <<orders, tickets, posts, seq>>
  /\ UNCHANGED <<session, now, proc>>

\* POST /staff/metrics
StaffMetrics(s, accept, user_id, likesIn, followsIn) ==
  LET g == requireRole(s, accept, StaffOrAdmin)
      route == "POST /staff/metrics"
      add_likes == Max0(Number(likesIn))
      add_follows == Max0(Number(followsIn))
      done == Sent(route, s, g, Redirect(route, s, "/staff", authedReads(s)))
  IN
  /\ IF GateAborts(g)
     THEN /\ resp' = GateResponse(route, s, g)
          /\ UNCHANGED store
     ELSE IF user_id = 0
     THEN /\ resp' = done
          /\ UNCHANGED store
     ELSE /\ seq.metrics < MaxMetricId
          /\ metrics' = InsertMetric(metrics, seq.metrics + 1, user_id,
                                     BindNumber(add_likes),
                                     BindNumber(add_follows))
          /\ seq' = [seq EXCEPT !.metrics = @ + 1]
          /\ resp' = done
          /\ UNCHANGED <<users, statuses, targets, orders, tickets, posts>>
  /\ UNCHANGED <<session, now, proc>>

\* the UPDATE of toggle_unsubscribe, were it to write 1 whatever it read
ToggledOff(rows, id) ==
  {IF u.id = id THEN [u EXCEPT !.unsubscribed = 1] ELSE u : u \in rows}

\* SELECT unsubscribed FROM users WHERE id=?, then, for a row found,
\* UPDATE users SET unsubscribed=? WHERE id=? with u.unsubscribed ? 0 : 1
Toggled(rows, id) ==
  {IF u.id = id
   THEN [u EXCEPT !.unsubscribed = IF Truthy(@) THEN 0 ELSE 1]
   ELSE u : u \in rows}

\* POST /staff/toggle_unsubscribe
ToggleUnsubscribe(s, accept, id) ==
  LET g == requireRole(s, accept, StaffOrAdmin)
      route == "POST /staff/toggle_unsubscribe"
  IN
  /\ IF GateAborts(g)
     THEN /\ resp' = GateResponse(route, s, g)
          /\ UNCHANGED store
     ELSE /\ users' = Toggled(users, id)
          /\ resp' = Sent(route, s, g,
                          Redirect(route, s, "/staff",
                                   authedReads(s) \cup {"users.id"}))
          /\ UNCHANGED <<statuses, targets, metrics, orders, tickets, posts,
                         seq>>
  /\ UNCHANGED <<session, now, proc>>

\* the loop `for (let i=0;i<6;i++)` stopped one round early
SeedFive(rows, first, userId) ==
  rows \cup {[id |-> first + i, user_id |-> userId, likes |-> 10 + i * 5,
              follows |-> 8 + i * 3] : i \in 0..4}

\* the six rows the performance views insert for a user without metrics
SeedSix(rows, first, userId) ==
  rows \cup {[id |-> first + i, user_id |-> userId, likes |-> 10 + i * 5,
              follows |-> 8 + i * 3] : i \in 0..5}

\* the body shared by GET /performance and GET /performance/:userId
PerformanceBody(route, s, g, userId) ==
  LET rows == {m \in metrics : m.user_id = userId}
  IN /\ IF rows = {}
        THEN /\ seq.metrics <= MaxMetricId
             /\ metrics' = SeedSix(metrics, seq.metrics + 1, userId)
             /\ seq' = [seq EXCEPT !.metrics = @ + 6]
        ELSE UNCHANGED <<metrics, seq>>
     /\ resp' = Sent(route, s, g,
                     IF \E u \in users : u.id = userId
                     THEN \* rows2, read after the inserts
                          WithBody(View(route, s, "",
                                        authedReads(s) \cup {"users.id"}),
                                   {m \in metrics' : m.user_id = userId})
                     ELSE \* user.email of no row throws while rendering
                          Status(route, s, 500, "",
                                 authedReads(s) \cup {"users.id"}))
     /\ UNCHANGED <<users, statuses, targets, orders, tickets, posts>>

\* GET /performance: the principal's own metrics
Performance(s, accept) ==
  LET g == requireRole(s, accept, StaffOrAdmin)
      route == "GET /performance"
  IN
  /\ IF GateAborts(g)
     THEN /\ resp' = GateResponse(route, s, g)
          /\ UNCHANGED store
     ELSE IF g.me = {}
     THEN \* me is not a user row: me.id is undefined and cannot be bound
          /\ resp' = Sent(route, s, g, Status(route, s, 500, "", {}))
          /\ UNCHANGED store
     ELSE PerformanceBody(route, s, g, (CHOOSE u \in g.me : TRUE).id)
  /\ UNCHANGED <<session, now, proc>>

\* GET /performance/:userId
PerformanceUser(s, accept, userId) ==
  LET g == requireRole(s, accept, StaffOrAdmin)
      route == "GET /performance/:userId"
  IN
  /\ IF GateAborts(g)
     THEN /\ resp' = GateResponse(route, s, g)
          /\ UNCHANGED store
     ELSE PerformanceBody(route, s, g, userId)
  /\ UNCHANGED <<session, now, proc>>

----------------------------------------------------------------------------
(* Blog *)

\* SELECT * FROM posts WHERE id=?, run stale: on the table as it was before
\* the UPDATE
BlogSelectStale(before, after, id) == {p \in before : p.id = id}

\* SELECT * FROM posts WHERE id=?, run after the UPDATE
BlogSelect(before, after, id) == {p \in after : p.id = id}

\* UPDATE posts SET views = views + 1 WHERE id=?
BlogCount(rows, id) ==
  {IF p.id = id THEN [p EXCEPT !.views = @ + 1] ELSE p : p \in rows}

\* GET /blog/:id: counts the view, then reads the post
BlogView(s, id) ==
  LET route == "GET /blog/:id"
      q == authedReads(s)
      counted == BlogCount(posts, id)
      post == BlogSelect(posts, counted, id)
  IN
  /\ \A p \in posts : p.id = id => p.views < MaxViews
  /\ posts' = counted
  /\ resp' = IF post = {} THEN Status(route, s, 404, "Not found", q)
             ELSE WithBody(View(route, s, "", q), post)
  /\ UNCHANGED <<users, statuses, targets, metrics, orders, tickets, seq,
                 session, now, proc>>

----------------------------------------------------------------------------
(* Checkout, tickets *)

\* GET /checkout: reads only
\* a lookup that finds a plan whatever the id
PlanFoundAny(plan_id) == TRUE

\* SELECT * FROM plans WHERE id=? returns a row
PlanFound(plan_id) == plan_id \in DOMAIN Plans

CheckoutView(s, plan_id) ==
  LET route == "GET /checkout"
      q == authedReads(s)
  IN
  /\ resp' = IF ~PlanFound(plan_id)
             THEN Status(route, s, 404, "Plan not found", q)
             ELSE IF authed(s) = {} THEN Redirect(route, s, "/login", q)
             ELSE View(route, s, "", q)
  /\ UNCHANGED <<store, session, now, proc>>

\* INSERT INTO orders(...) without a status: the column default
OrderRowPending(id, uid, plan_id) ==
  [id |-> id, user_id |-> uid, plan_id |-> plan_id, status |-> "pending"]

\* INSERT INTO orders(user_id, plan_id, ig_username, notes, status) with
\* status 'paid'
OrderRow(id, uid, plan_id) ==
  [id |-> id, user_id |-> uid, plan_id |-> plan_id, status |-> "paid"]

\* POST /checkout: the order is inserted as paid
Checkout(s, plan_id) ==
  LET route == "POST /checkout"
      q == authedReads(s)
      me == authed(s)
  IN
  /\ IF me = {}
     THEN /\ resp' = Redirect(route, s, "/login", q)
          /\ UNCHANGED store
     ELSE IF ~PlanFound(plan_id)
     THEN /\ resp' = Status(route, s, 404, "Plan not found", q)
          /\ UNCHANGED store
     ELSE LET u == CHOOSE r \in me : TRUE
          IN /\ seq.orders < MaxOrderId
             /\ orders' = orders \cup {OrderRow(seq.orders + 1, u.id,
                                                 plan_id)}
             /\ seq' = [seq EXCEPT !.orders = @ + 1]
             /\ resp' = Redirect(route, s,
                                 IF u.role = "admin" THEN "/dashboard"
                                 ELSE "/", q)
             /\ UNCHANGED <<users, statuses, targets, metrics, tickets,
                            posts>>
  /\ UNCHANGED <<session, now, proc>>

\* POST /ticket: a ticket of the signed-in user
Ticket(s) ==
  LET route == "POST /ticket"
      q == authedReads(s)
      me == authed(s)
  IN
  /\ IF me = {}
     THEN /\ resp' = Status(route, s, 403, "Forbidden", q)
          /\ UNCHANGED store
     ELSE /\ seq.tickets < MaxTicketId
          /\ tickets' = tickets \cup {[id |-> seq.tickets + 1,
                                       user_id |-> (CHOOSE r \in me : TRUE).id,
                                       status |-> "open"]}
          /\ seq' = [seq EXCEPT !.tickets = @ + 1]
          /\ resp' = Redirect(route, s, "/", q)
          /\ UNCHANGED <<users, statuses, targets, metrics, orders, posts>>
  /\ UNCHANGED <<session, now, proc>>

\* POST /contact_submit: an anonymous ticket (user_id NULL)
ContactSubmit(s) ==
  /\ seq.tickets < MaxTicketId
  /\ tickets' = tickets \cup {[id |-> seq.tickets + 1, user_id |-> NULL,
                               status |-> "open"]}
  /\ seq' = [seq EXCEPT !.tickets = @ + 1]
  /\ resp' = Redirect("POST /contact_submit", s, "/contact", authedReads(s))
  /\ UNCHANGED <<users, statuses, targets, metrics, orders, posts, session,
                 now, proc>>

\* POST /subscribe: writes the subscribers table only
Subscribe(s) ==
  /\ resp' = Redirect("POST /subscribe", s, "/", authedReads(s))
  /\ UNCHANGED <<store, session, now, proc>>

----------------------------------------------------------------------------
(* Restart: the server process starts again and runs initDb() on the *)
(* database file it finds                                            *)

\* the position of row u among rows, in the order of their ids
RankIn(rows, u) == Cardinality({v \in rows : v.id <= u.id})

\* initDb() on an existing database.  Sessions live in the clients' cookies
\* and outlast the process.
Restart ==
  LET missing == {u \in SeedUsers : ~ \E v \in users : v.email = u.email}
      \* INSERT OR IGNORE INTO users, for the three demo accounts
      users2 == users \cup {[u EXCEPT !.id = seq.users + RankIn(missing, u)] :
                             u \in missing}
      bare == {u \in users2 : ~ \E r \in statuses : r.user_id = u.id}
  IN
  /\ seq.users + Cardinality(missing) <= MaxUserId
  /\ seq.targets + Cardinality(users2) <= MaxTargetId
  /\ users' = users2
  \* ids.forEach: insStatus is ignored for a user_id that has a row,
  \* insTargets and insMetrics always insert
  /\ statuses' = statuses \cup {[id |-> seq.statuses + RankIn(bare, u),
                                  user_id |-> u.id] : u \in bare}
  /\ targets' = targets \cup {[id |-> seq.targets + RankIn(users2, u),
                                user_id |-> u.id] : u \in users2}
  /\ \E d \in SeedMetricDraws :
       metrics' = metrics \cup {[id |-> seq.metrics + RankIn(users2, u),
                                  user_id |-> u.id, likes |-> d[1],
                                  follows |-> d[2]] : u \in users2}
  \* posts are seeded into an empty table only
  /\ posts' = IF posts = {}
              THEN {[id |-> seq.posts + i, views |-> 0] : i \in 1..6}
              ELSE posts
  /\ seq' = [seq EXCEPT !.users = @ + Cardinality(missing),
                        !.statuses = @ + Cardinality(bare),
                        !.targets = @ + Cardinality(users2),
                        !.metrics = @ + Cardinality(users2),
                        !.posts = IF posts = {} THEN @ + 6 ELSE @]
  /\ resp' = NoResponse
  /\ proc' = IdleProc
  /\ UNCHANGED <<orders, tickets, session, now>>

----------------------------------------------------------------------------
(* Two staff requests on one user, statement by statement.  proc holds   *)
(* the two requests: each has its handler (op), its position (pc) and    *)
(* the row it has read; lastRole and lastFlag are the values the last    *)
(* UPDATE statement of either request wrote.                             *)

RaceOps == {"promote", "demote", "delete", "toggle_unsubscribe"}

\* the session each of the two requests comes from
RaceSession == <<"A", "B">>

\* the statement a handler runs after its gate
FirstStatement(op) ==
  CASE op = "promote" -> "update"
    [] op = "demote" -> "update"
    [] op = "delete" -> "del_users"
    [] op = "toggle_unsubscribe" -> "select"

\* both requests arrive, both sessions being signed in
RaceBegin(op1, op2, id) ==
  /\ proc.pc = "idle"
  /\ \A s \in Sessions : authed(s) # {}
  /\ proc' = [pc |-> "race", id |-> id,
              reqs |-> <<[op |-> op1, pc |-> "gate", read |-> UNDEF],
                         [op |-> op2, pc |-> "gate", read |-> UNDEF]>>,
              lastRole |-> "", lastFlag |-> UNDEF]
  /\ UNCHANGED <<store, session, now, resp>>

\* request i runs its next statement
RaceStep(i) ==
  LET r == proc.reqs[i]
      s == RaceSession[i]
      id == proc.id
      route == "POST /staff/" \o r.op
      g == requireRole(s, <<"*/*">>, StaffOrAdmin)
      goto(pc) == [proc EXCEPT !.reqs[i].pc = pc]
      row == {u \in users : u.id = id}
      flag == IF Truthy(r.read) THEN 0 ELSE 1
  IN
  /\ proc.pc = "race"
  /\ r.pc # "done"
  /\ CASE r.pc = "gate" ->
            /\ IF GateAborts(g)
               THEN /\ resp' = GateResponse(route, s, g)
                    /\ proc' = goto("done")
               ELSE /\ proc' = goto(FirstStatement(r.op))
                    /\ UNCHANGED resp
            /\ UNCHANGED store
       [] r.pc = "update" /\ r.op \in {"promote", "demote"} ->
            LET role == IF r.op = "promote" THEN "staff" ELSE "user"
            IN /\ users' = SetRole(users, id, role)
               /\ proc' = [goto("respond") EXCEPT !.lastRole = role]
               /\ UNCHANGED <<statuses, targets, metrics, orders, tickets,
                              posts, seq, resp>>
       [] r.pc = "del_users" ->
            /\ users' = DeleteUser(users, id)
            /\ proc' = goto("del_targets")
            /\ UNCHANGED <<statuses, targets, metrics, orders, tickets,
                           posts, seq, resp>>
       [] r.pc = "del_targets" ->
            /\ targets' = DeleteOf(targets, id)
            /\ proc' = goto("del_statuses")
            /\ UNCHANGED <<users, statuses, metrics, orders, tickets, posts,
                           seq, resp>>
       [] r.pc = "del_statuses" ->
            /\ statuses' = DeleteOf(statuses, id)
            /\ proc' = goto("del_metrics")
            /\ UNCHANGED <<users, targets, metrics, orders, tickets, posts,
                           seq, resp>>
       [] r.pc = "del_metrics" ->
            /\ metrics' = DeleteOf(metrics, id)
            /\ proc' = goto("respond")
            /\ UNCHANGED <<users, statuses, targets, orders, tickets, posts,
                           seq, resp>>
       [] r.pc = "select" ->
            \* SELECT unsubscribed FROM users WHERE id=?
            /\ proc' = IF row = {} THEN goto("respond")
                       ELSE [goto("update") EXCEPT
                               !.reqs[i].read =
                                  (CHOOSE u \in row : TRUE).unsubscribed]
            /\ UNCHANGED <<store, resp>>
       [] r.pc = "update" /\ r.op = "toggle_unsubscribe" ->
            \* UPDATE users SET unsubscribed=? WHERE id=?
            /\ users' = {IF u.id = id THEN [u EXCEPT !.unsubscribed = flag]
                         ELSE u : u \in users}
            /\ proc' = [goto("respond") EXCEPT !.lastFlag = flag]
            /\ UNCHANGED <<statuses, targets, metrics, orders, tickets,
                           posts, seq, resp>>
       [] r.pc = "respond" ->
            /\ resp' = Redirect(route, s, "/staff", authedReads(s))
            /\ proc' = goto("done")
            /\ UNCHANGED store
  /\ UNCHANGED <<session, now>>

\* both requests are answered
RaceEnd ==
  /\ proc.pc = "race"
  /\ \A i \in 1..2 : proc.reqs[i].pc = "done"
  /\ proc' = IdleProc
  /\ UNCHANGED <<store, session, now, resp>>

----------------------------------------------------------------------------
(* Request inputs of the specifications *)

\* (email, password) pairs submitted to POST /login
Credentials == {<<AdminEmail, "admin123">>, <<StaffEmail, "staff123">>,
                <<UserEmailMixed, "user123">>, <<NewEmail, "pw1">>,
                <<UserEmail, "pw1">>, <<NoEmail, "">>}

\* some stored user has these credentials
Valid(c) ==
  \E u \in users : /\ u.email = toLowerCase(c[1])
                   /\ u.password_hash = sha256(c[2])

\* a login with credentials that are valid now (failed attempts are
\* explored in SpecAuth)
GoodLoginStep(S) ==
  \E s \in S, c \in Credentials : Valid(c) /\ Login(s, c[1], c[2])

LogoutStep(S) == \E s \in S : Logout(s)

SignupEmails == {NoEmail, UserEmailMixed, NewEmailMixed}
SignupPasswords == {"", "pw1"}
BodyRoles == {"", "admin"}

SignupStep(S) ==
  \E s \in S, e \in SignupEmails, p \in SignupPasswords, r \in BodyRoles :
    Signup(s, e, p, r)

\* the ids staff requests name: none, the seeded user
TargetIds == {0, 3}
\* the ids a staff member demotes or deletes: also the seeded staff member
AllTargetIds == {0, 2, 3}

----------------------------------------------------------------------------
(* Spec: one client session against the role-gated routes *)

Next ==
  \/ GoodLoginStep({"A"})
  \/ LogoutStep({"A"})
  \/ \E a \in AcceptInputs : Dashboard("A", a)
  \/ \E a \in AcceptInputs, t \in {"", "title"} : CreatePost("A", a, t)
  \/ \E a \in AcceptInputs, e \in {NoEmail, UserEmailMixed} :
       AssignRole("A", a, e, "root")
  \/ \E a \in AcceptInputs : Staff("A", a)
  \/ \E a \in AcceptInputs, id \in TargetIds : UserDetail("A", a, id)
  \/ \E a \in AcceptInputs, e \in {NoEmail, NewEmailMixed} :
       StaffAdd("A", a, e, "pw1")
  \/ \E a \in AcceptInputs, id \in TargetIds : Promote("A", a, id)
  \/ \E a \in AcceptInputs, id \in AllTargetIds : Demote("A", a, id)
  \/ \E a \in AcceptInputs, id \in TargetIds : StaffDelete("A", a, id)
  \/ \E a \in AcceptInputs, id \in TargetIds :
       StaffMetrics("A", a, id, <<"7">>, NoText)
  \/ \E a \in AcceptInputs, id \in TargetIds : ToggleUnsubscribe("A", a, id)
  \/ \E a \in AcceptInputs : Performance("A", a)
  \/ \E a \in AcceptInputs, id \in TargetIds : PerformanceUser("A", a, id)

Spec == Init /\ [][Next]_vars

----------------------------------------------------------------------------
(* SpecAuth: one session logging in and out while the clock advances *)

NextAuth ==
  \/ \E c \in Credentials : Login("A", c[1], c[2])
  \/ Logout("A")
  \/ Tick

SpecAuth == Init /\ [][NextAuth]_vars

----------------------------------------------------------------------------
(* SpecSession: every way a session comes to hold a uid or to lose it, *)
(* among requests that leave the session alone                         *)

NextSession ==
  \/ \E c \in Credentials : Login("A", c[1], c[2])
  \/ Logout("A")
  \/ Tick
  \/ SignupStep({"A"})
  \/ \E a \in AcceptInputs : Staff("A", a)
  \/ Ticket("A")

SpecSession == Init /\ [][NextSession]_vars

----------------------------------------------------------------------------
(* SpecBlog: posts are written and read *)

\* the ids a reader asks for: none, two seeded posts, the next post
PostIdInputs == {0, 1, 2, 7}

NextBlog ==
  \/ GoodLoginStep({"A"})
  \/ LogoutStep({"A"})
  \/ \E id \in PostIdInputs : BlogView("A", id)
  \/ \E a \in AcceptInputs, t \in {"", "title"} : CreatePost("A", a, t)
  \/ \E a \in AcceptInputs : Dashboard("A", a)

SpecBlog == Init /\ [][NextBlog]_vars

----------------------------------------------------------------------------
(* SpecAccounting: the dashboard's aggregates as a function of the orders  *)
(* table.  The table starts with rows of every status the schema and the   *)
(* dashboard name (status defaults to 'pending'); the handlers add paid    *)
(* rows.                                                                   *)

OrderStatuses == {"pending", "paid", "declined", "cancelled"}

\* an orders table of n rows with ids 1..n, owned by the seeded user
OrderTables(n) ==
  { {[id |-> i, user_id |-> 3, plan_id |-> f[i][1], status |-> f[i][2]] :
       i \in 1..n} : f \in [1..n -> (DOMAIN Plans) \X OrderStatuses] }

InitAccounting ==
  /\ users = SeedUsers
  /\ statuses = {[id |-> i, user_id |-> i] : i \in 1..3}
  /\ targets = {[id |-> i, user_id |-> i] : i \in 1..3}
  /\ \E d \in [1..3 -> SeedMetricDraws] :
       metrics = {[id |-> i, user_id |-> i, likes |-> d[i][1],
                   follows |-> d[i][2]] : i \in 1..3}
  /\ \E n \in 0..MaxOrders :
       /\ orders \in OrderTables(n)
       /\ seq = [users |-> 3, statuses |-> 3, targets |-> 3, metrics |-> 3,
                 orders |-> n, tickets |-> 0, posts |-> 6]
  /\ tickets = {}
  /\ posts = {[id |-> i, views |-> 0] : i \in 1..6}
  /\ session = [s \in Sessions |-> EmptySession]
  /\ now = 0
  /\ resp = NoResponse
  /\ proc = IdleProc

NextAccounting ==
  \/ GoodLoginStep({"A"})
  \/ LogoutStep({"A"})
  \/ \E pl \in PlanIdInputs : Checkout("A", pl)
  \/ \E a \in AcceptInputs : Dashboard("A", a)

\* Checkout adds its paid row to a table of fewer than MaxOrderId rows
SpecAccounting == InitAccounting /\ [][NextAccounting]_vars

----------------------------------------------------------------------------
(* SpecCheckout: signed-in and anonymous clients at the checkout *)

NextCheckout ==
  \/ GoodLoginStep({"A"})
  \/ LogoutStep({"A"})
  \/ \E pl \in PlanIdInputs : CheckoutView("A", pl)
  \/ \E pl \in PlanIdInputs : Checkout("A", pl)
  \/ \E a \in AcceptInputs : Dashboard("A", a)

SpecCheckout == Init /\ [][NextCheckout]_vars

----------------------------------------------------------------------------
(* SpecGate: a staff session whose own user row is demoted, promoted and *)
(* deleted while the session lasts                                       *)

\* Accept headers: absent, without text/html, with text/html
AcceptHeaders == {<<>>} \cup AcceptInputs

NextGate ==
  \/ GoodLoginStep({"A"})
  \/ LogoutStep({"A"})
  \/ \E a \in AcceptHeaders : Dashboard("A", a)
  \/ \E a \in AcceptHeaders : Staff("A", a)
  \/ \E a \in AcceptHeaders, id \in {2, 3} : Promote("A", a, id)
  \/ \E a \in AcceptHeaders, id \in {2, 3} : Demote("A", a, id)
  \/ \E a \in AcceptHeaders, id \in {2, 3} : StaffDelete("A", a, id)

SpecGate == Init /\ [][NextGate]_vars

----------------------------------------------------------------------------
(* SpecRoles: the requests that write users.role, with request bodies of *)
(* any content                                                           *)

\* the role field of a request body: absent, a role, any other string
RoleInputs == {"", "staff", "root"}

NextRoles ==
  \/ GoodLoginStep({"A"})
  \/ LogoutStep({"A"})
  \/ \E e \in {UserEmailMixed, NewEmailMixed}, r \in BodyRoles :
       Signup("A", e, "pw1", r)
  \/ \E a \in AcceptInputs, e \in {StaffEmail, NewEmailMixed} :
       StaffAdd("A", a, e, "pw1")
  \/ \E a \in AcceptInputs, id \in TargetIds : Promote("A", a, id)
  \/ \E a \in AcceptInputs, id \in AllTargetIds : Demote("A", a, id)
  \/ \E a \in AcceptInputs, e \in {NoEmail, UserEmailMixed},
        r \in RoleInputs : AssignRole("A", a, e, r)

SpecRoles == Init /\ [][NextRoles]_vars

----------------------------------------------------------------------------
(* SpecFrame: the requests that write users.role among the other requests *)

NextFrame ==
  \/ Login("A", AdminEmail, "admin123")
  \/ Login("A", UserEmailMixed, "user123")
  \/ LogoutStep({"A"})
  \/ Signup("A", UserEmailMixed, "pw1", "admin")
  \/ Promote("A", <<"*/*">>, 3)
  \/ Demote("A", <<"*/*">>, 3)
  \/ AssignRole("A", <<"*/*">>, UserEmailMixed, "staff")
  \/ Checkout("A", 2)
  \/ Ticket("A")
  \/ ContactSubmit("A")
  \/ Subscribe("A")
  \/ StaffMetrics("A", <<"*/*">>, 3, <<"7">>, NoText)
  \/ ToggleUnsubscribe("A", <<"*/*">>, 3)
  \/ Performance("A", <<"*/*">>)
  \/ PerformanceUser("A", <<"*/*">>, 3)
  \/ BlogView("A", 1)

SpecFrame == Init /\ [][NextFrame]_vars

----------------------------------------------------------------------------
(* SpecRestart: accounts are created and deleted, and the server starts *)
(* again                                                                *)

NextRestart ==
  \/ GoodLoginStep({"A"})
  \/ LogoutStep({"A"})
  \/ Signup("A", NewEmailMixed, "pw1", "")
  \/ \E a \in AcceptInputs : StaffAdd("A", a, NewEmailMixed, "pw1")
  \/ \E a \in AcceptInputs, id \in {3, 4} : StaffDelete("A", a, id)
  \/ Restart

SpecRestart == Init /\ [][NextRestart]_vars

----------------------------------------------------------------------------
(* SpecMetrics: staff append metrics with request bodies of any content *)

\* add_likes and add_follows as sent: absent, numbers, no number
MetricTexts == {NoText, <<"7">>, <<"1", "2">>, <<"-", "3">>, <<"x">>}

NextMetrics ==
  \/ GoodLoginStep({"A"})
  \/ LogoutStep({"A"})
  \/ \E a \in AcceptInputs, id \in TargetIds, l \in MetricTexts,
        f \in {NoText, <<"7">>, <<"x">>} : StaffMetrics("A", a, id, l, f)
  \/ \E a \in AcceptInputs : Performance("A", a)
  \/ \E a \in AcceptInputs : Staff("A", a)

SpecMetrics == Init /\ [][NextMetrics]_vars

----------------------------------------------------------------------------
(* SpecRace: a staff member and the admin, each in a session of their *)
(* own, send two requests on the seeded user at once                  *)

NextRace ==
  \/ Login("A", StaffEmail, "staff123")
  \/ Login("B", AdminEmail, "admin123")
  \/ \E op1, op2 \in RaceOps : RaceBegin(op1, op2, 3)
  \/ \E i \in 1..2 : RaceStep(i)
  \/ RaceEnd

SpecRace == Init /\ [][NextRace]_vars

----------------------------------------------------------------------------
(* SpecSeed: a signup whose statements may throw, and a staff session *)
(* that looks at the performance pages meanwhile                      *)

NextSeed ==
  \/ SignupBegin("A", NewEmailMixed, "pw1", "")
  \/ SignupInsertUser
  \/ SignupSelectId
  \/ \E throws \in BOOLEAN : SignupInsertStatus(throws)
  \/ \E throws \in BOOLEAN : SignupInsertTargets(throws)
  \/ \E throws \in BOOLEAN : SignupInsertMetrics(throws)
  \/ SignupFinish
  \/ GoodLoginStep({"B"})
  \/ \E a \in AcceptInputs : Performance("B", a)
  \/ \E a \in AcceptInputs, id \in {3, 4} : PerformanceUser("B", a, id)

SpecSeed == Init /\ [][NextSeed]_vars

----------------------------------------------------------------------------
(* SpecToggle: staff switch the unsubscribed flag of users that come and *)
(* go                                                                    *)

\* the ids a toggle names: none, seeded users, an added or missing user
ToggleIds == {0, 2, 3, 4}

NextToggle ==
  \/ GoodLoginStep({"A"})
  \/ LogoutStep({"A"})
  \/ \E a \in AcceptInputs, id \in ToggleIds : ToggleUnsubscribe("A", a, id)
  \/ \E a \in AcceptInputs : StaffAdd("A", a, NewEmailMixed, "pw1")
  \/ \E a \in AcceptInputs : StaffDelete("A", a, 3)

SpecToggle == Init /\ [][NextToggle]_vars

----------------------------------------------------------------------------
(* SpecAdmins: every request that writes a role or a user row, from *)
(* sessions of every role                                           *)

\* the role field of an assign_role body: absent, admin
AdminRoleInputs == {"", "admin"}

NextAdmins ==
  \/ GoodLoginStep({"A"})
  \/ LogoutStep({"A"})
  \/ \E e \in {AdminEmail, NewEmailMixed}, r \in BodyRoles :
       Signup("A", e, "pw1", r)
  \/ \E a \in AcceptInputs, e \in {AdminEmail, NewEmailMixed} :
       StaffAdd("A", a, e, "pw1")
  \/ \E a \in AcceptInputs, id \in {1, 3} : Promote("A", a, id)
  \/ \E a \in AcceptInputs, id \in {1, 3} : Demote("A", a, id)
  \/ \E a \in AcceptInputs, id \in {1, 3} : StaffDelete("A", a, id)
  \/ \E a \in AcceptInputs, e \in {StaffEmail, UserEmailMixed},
        r \in AdminRoleInputs : AssignRole("A", a, e, r)
  \/ \E a \in AcceptInputs : Dashboard("A", a)

SpecAdmins == Init /\ [][NextAdmins]_vars

----------------------------------------------------------------------------
(* SpecCache: two sessions log in once, while the roles are as seeded, and *)
(* keep their cookies while the roles of their users are changed           *)

\* a first login of the session, before any role has changed
LoginOnce(s, email, password) ==
  /\ session[s].uid = UNDEF
  /\ users = SeedUsers
  /\ Login(s, email, password)

NextCache ==
  \/ LoginOnce("A", StaffEmail, "staff123")
  \/ LoginOnce("B", UserEmailMixed, "user123")
  \/ LoginOnce("B", AdminEmail, "admin123")
  \/ \E s \in Sessions, a \in AcceptInputs : Staff(s, a)
  \/ \E s \in Sessions, a \in AcceptInputs : ToggleUnsubscribe(s, a, 1)
  \/ \E a \in AcceptInputs : Promote("A", a, 3)
  \/ \E a \in AcceptInputs : Demote("B", a, 2)
  \/ \E a \in AcceptInputs : AssignRole("B", a, StaffEmail, "")

SpecCache == Init /\ [][NextCache]_vars

----------------------------------------------------------------------------
(* SpecReuse: session A keeps its cookie while its user is deleted and *)
(* accounts are created                                                *)

NextReuse ==
  \/ Login("A", UserEmailMixed, "user123")
  \/ Login("B", StaffEmail, "staff123")
  \/ Signup("B", NewEmailMixed, "pw1", "")
  \/ \E a \in AcceptInputs : StaffAdd("B", a, NewEmailMixed, "pw1")
  \/ \E a \in AcceptInputs, id \in {3, 4} : StaffDelete("B", a, id)
  \/ \E a \in AcceptInputs : Staff("A", a)
  \/ \E a \in AcceptInputs : ToggleUnsubscribe("A", a, 2)
  \/ Checkout("A", 2)
  \/ Ticket("A")
  \/ Restart

SpecReuse == Init /\ [][NextReuse]_vars

----------------------------------------------------------------------------
(* SpecOrders: orders are bought and their buyers deleted *)

NextOrders ==
  \/ GoodLoginStep({"A"})
  \/ LogoutStep({"A"})
  \/ \E pl \in PlanIdInputs : Checkout("A", pl)
  \/ \E a \in AcceptInputs : Dashboard("A", a)
  \/ \E a \in AcceptInputs : StaffDelete("A", a, 3)
  \/ \E a \in AcceptInputs : AssignRole("A", a, UserEmailMixed, "staff")
  \/ Ticket("A")

SpecOrders == Init /\ [][NextOrders]_vars

----------------------------------------------------------------------------
(* SpecLockout: two clients try the same account, each with its own *)
(* session                                                          *)

\* the logins tried: the seeded user's password, right and wrong
LockoutCredentials == {<<UserEmailMixed, "user123">>, <<UserEmail, "pw1">>}

NextLockout ==
  \/ \E s \in Sessions, c \in LockoutCredentials : Login(s, c[1], c[2])
  \/ \E s \in Sessions : Logout(s)
  \/ Tick

SpecLockout == Init /\ [][NextLockout]_vars

----------------------------------------------------------------------------
(* SpecSignup: accounts are created and deleted *)

NextSignup ==
  \/ GoodLoginStep({"A"})
  \/ LogoutStep({"A"})
  \/ SignupStep({"A"})
  \/ \E a \in AcceptInputs, e \in {NoEmail, UserEmailMixed, NewEmailMixed},
        p \in SignupPasswords : StaffAdd("A", a, e, p)
  \/ \E a \in AcceptInputs, id \in {0, 3, 4} : StaffDelete("A", a, id)

SpecSignup == Init /\ [][NextSignup]_vars

----------------------------------------------------------------------------
(* SpecStmt: session A signs up statement by statement while session B,   *)
(* served by another instance on the same database file, makes requests   *)

NextStmt ==
  \/ \E e \in SignupEmails, p \in SignupPasswords :
       SignupBegin("A", e, p, "")
  \/ SignupInsertUser
  \/ SignupSelectId
  \/ \E throws \in BOOLEAN : SignupInsertStatus(throws)
  \/ \E throws \in BOOLEAN : SignupInsertTargets(throws)
  \/ \E throws \in BOOLEAN : SignupInsertMetrics(throws)
  \/ SignupFinish
  \/ GoodLoginStep({"B"})
  \/ \E a \in AcceptInputs, id \in {0, 4} : StaffDelete("B", a, id)

SpecStmt == Init /\ [][NextStmt]_vars

----------------------------------------------------------------------------
(* SpecDelete: users with orders, tickets and metrics are deleted *)

NextDelete ==
  \/ GoodLoginStep({"A"})
  \/ LogoutStep({"A"})
  \/ \E pl \in PlanIdInputs : Checkout("A", pl)
  \/ Ticket("A")
  \/ ContactSubmit("A")
  \/ \E a \in AcceptInputs, id \in {0, 3, 4}, l \in DeltaInputs :
       StaffMetrics("A", a, id, l, NoText)
  \/ \E a \in AcceptInputs, id \in {0, 3, 4} : StaffDelete("A", a, id)

SpecDelete == Init /\ [][NextDelete]_vars

----------------------------------------------------------------------------
(* Claims *)

AdminRoutes == {"GET /dashboard", "POST /admin/create_post",
                "POST /admin/assign_role"}
StaffRoutes == {"GET /staff", "GET /staff/user_detail/:id", "POST /staff/add",
                "POST /staff/promote", "POST /staff/demote",
                "POST /staff/delete", "POST /staff/metrics",
                "POST /staff/toggle_unsubscribe", "GET /performance",
                "GET /performance/:userId"}

\* the session's uid is the id of a stored user whose role is in roles
Authorized(s, roles) ==
  \E u \in users : u.id = session[s].uid /\ u.role \in roles

\* the allow-list of a guarded route
AllowList(route) == IF route \in AdminRoutes THEN Admin ELSE StaffOrAdmin

\* C1: a request to a guarded route whose session has no uid, a uid of no
\* user row, or a user whose role is not in the route's allow-list changes
\* no table (and no session) and is answered by the gate: 302 to /login or
\* 403.
C1_RoleGate ==
  [][ \A s \in Sessions :
        ( /\ resp'.s = s
          /\ resp'.route \in AdminRoutes \cup StaffRoutes
          /\ ~Authorized(s, AllowList(resp'.route)) )
        => ( /\ UNCHANGED <<store, session>>
             /\ resp'.code \in {302, 403}
             /\ resp'.code = 302 => resp'.loc = "/login" ) ]_vars

\* C1 witness: POST /staff/delete of the seeded user's own session (role
\* user) was rejected and the target row is still there
C1_Witness ==
  /\ resp.route = "POST /staff/delete"
  /\ resp.code = 403
  /\ \E u \in users : u.id = session["A"].uid /\ u.role = "user"
  /\ \E u \in users : u.id = 3

\* the session is inside a lockout window at the current time
InLockout(s) ==
  /\ session[s].login_locked_until > 0
  /\ now < session[s].login_locked_until

\* the stored users the submitted credentials match
Matching(c) ==
  {u \in users : u.email = toLowerCase(c[1])
                 /\ u.password_hash = sha256(c[2])}

\* this step is a POST /login of s that was rejected by the lockout
RejectedLogin(s) ==
  /\ \E c \in Credentials : Login(s, c[1], c[2])
  /\ resp'.msg = "Too many attempts"

\* C2 as stated: inside the lockout window every POST /login, correct
\* credentials included, is rejected without any read of the user store and
\* leaves the session unchanged; the 6th consecutive failure opens a window
\* of 5 minutes; fewer than 6 failures never lock.
C2_NoStoreLookup ==
  [][ \A s \in Sessions, c \in Credentials :
        Login(s, c[1], c[2]) =>
          /\ InLockout(s) => /\ resp'.msg = "Too many attempts"
                             /\ resp'.q = {}
                             /\ session' = session
          /\ ~InLockout(s) => resp'.msg # "Too many attempts"
          /\ (resp'.msg = "Invalid credentials"
              /\ session'[s].failed_login >= LockThreshold)
             => session'[s].login_locked_until = now' + LockMs
          /\ session'[s].failed_login < LockThreshold
             => session'[s].login_locked_until \in {UNDEF, NULL} ]_vars

\* C2 amended: as C2, but the rejection is made without the lookup of the
\* submitted email; the one user-store read left is the session
\* middleware's SELECT by id, made when the session holds a uid.
C2_Lockout ==
  [][ \A s \in Sessions, c \in Credentials :
        Login(s, c[1], c[2]) =>
          /\ InLockout(s) => /\ resp'.msg = "Too many attempts"
                             /\ "users.email" \notin resp'.q
                             /\ (resp'.q # {}) = (session[s].uid > 0)
                             /\ session' = session
                             /\ UNCHANGED store
          /\ ~InLockout(s) => resp'.msg # "Too many attempts"
          /\ (resp'.msg = "Invalid credentials"
              /\ session'[s].failed_login >= LockThreshold)
             => session'[s].login_locked_until = now' + LockMs
          /\ session'[s].failed_login < LockThreshold
             => session'[s].login_locked_until \in {UNDEF, NULL} ]_vars

\* C2 witness: a login was rejected in a session locked by 6 failures
\* within the last 5 minutes
C2_Witness ==
  /\ resp.route = "POST /login"
  /\ resp.msg = "Too many attempts"
  /\ session["A"].failed_login = LockThreshold
  /\ now < session["A"].login_locked_until
  /\ now > session["A"].login_locked_until - LockMs

\* C3: a rejected login reports ceil((lockedUntil - now) / 1000) seconds,
\* between 1 and 300, does not move the lockout timestamp, and reports no
\* more than the rejection before it in the same window.
C3_WaitTime ==
  [][ \A s \in Sessions :
        RejectedLogin(s) =>
          /\ resp'.wait = Ceil(session[s].login_locked_until - now', 1000)
          /\ resp'.wait >= 1
          /\ resp'.wait <= 300
          /\ session'[s].login_locked_until = session[s].login_locked_until
          /\ (resp.msg = "Too many attempts" /\ resp.s = s)
             => resp'.wait <= resp.wait ]_vars

\* C4: a login with correct credentials in a session that is not locked
\* sets failed_login to 0, login_locked_until to null and uid to the
\* matched user's id; every failed attempt counts one more than the count
\* left by the step before, so a lock is only ever set at a count of 6.
C4_SuccessResets ==
  [][ \A s \in Sessions, c \in Credentials :
        Login(s, c[1], c[2]) =>
          /\ (Matching(c) # {} /\ ~InLockout(s))
             => /\ session'[s].failed_login = 0
                /\ session'[s].login_locked_until = NULL
                /\ \E u \in Matching(c) : session'[s].uid = u.id
          /\ resp'.msg = "Invalid credentials"
             => /\ session'[s].failed_login
                     = (IF session[s].failed_login > 0
                        THEN session[s].failed_login ELSE 0) + 1
                /\ session'[s].login_locked_until
                     # session[s].login_locked_until
                   => session'[s].failed_login >= LockThreshold ]_vars

\* C4 witness: 5 failures after a successful login, and no lock
C4_Witness ==
  /\ session["A"].uid > 0
  /\ session["A"].failed_login = 5
  /\ session["A"].login_locked_until = NULL
  /\ resp.msg = "Invalid credentials"

\* where a login of a user with this role is sent
RoleTarget(role) ==
  CASE role = "admin" -> "/dashboard"
    [] role = "staff" -> "/staff"
    [] role = "user" -> "/"

\* C5 as stated: a login with correct credentials is always redirected by
\* the stored role.
C5_AlwaysRedirects ==
  [][ \A s \in Sessions, c \in Credentials :
        (Login(s, c[1], c[2]) /\ Matching(c) # {})
        => \E u \in Matching(c) :
             /\ resp'.code = 302
             /\ resp'.loc = RoleTarget(u.role) ]_vars

\* C5 amended: a login with correct credentials in a session that is not
\* inside a lockout window is redirected by the stored role: admin to
\* /dashboard, staff to /staff, user to /.
C5_RedirectByRole ==
  [][ \A s \in Sessions, c \in Credentials :
        (Login(s, c[1], c[2]) /\ Matching(c) # {} /\ ~InLockout(s))
        => \E u \in Matching(c) :
             /\ resp'.code = 302
             /\ resp'.loc = RoleTarget(u.role) ]_vars

\* C5 witness: the seeded staff member has logged in and was sent to /staff
C5_Witness ==
  /\ resp.route = "POST /login"
  /\ resp.code = 302
  /\ resp.loc = "/staff"
  /\ session["A"].uid = 2

\* the user has its Status, Targets and Metric rows
HasDependents(u) ==
  /\ \E r \in statuses : r.user_id = u.id
  /\ \E r \in targets : r.user_id = u.id
  /\ \E r \in metrics : r.user_id = u.id

\* C6: whenever no signup is in flight, every user created by signup (the
\* users beyond the three seeded ones) has its Status, Targets and Metric
\* rows, and a signup that reported an error has left no user row of its
\* own.
C6_SignupAtomic ==
  proc.pc = "idle" =>
    /\ \A u \in users : u.id > 3 => HasDependents(u)
    /\ (resp.route = "POST /signup" /\ resp.msg # "")
       => ~ \E u \in users : u.id = proc.uid

\* no two user rows share an email, and every stored email is lower-case
EmailsUniqueLower ==
  /\ \A u, v \in users : u.email = v.email => u = v
  /\ \A u \in users :
       \A i \in 1..Len(u.email) :
         ~ \E k \in 1..26 : UpperCase[k] = u.email[i]

\* two emails that differ at most in the case of their letters
SameIgnoringCase(e, f) ==
  /\ Len(e) = Len(f)
  /\ \A i \in 1..Len(e) :
       \/ e[i] = f[i]
       \/ \E k \in 1..26 : {e[i], f[i]} = {UpperCase[k], LowerCase[k]}

C8_SignupValidation ==
  [][ \A s \in Sessions, e \in SignupEmails, p \in SignupPasswords,
         r \in BodyRoles :
        Signup(s, e, p, r) =>
          /\ (e = NoEmail \/ p = "")
             => /\ UNCHANGED <<store, session>>
                /\ resp'.msg = "Email & password required"
          /\ (e # NoEmail /\ p # ""
              /\ ~ \E u \in users : SameIgnoringCase(u.email, e))
             => resp'.code = 302
          /\ resp'.code = 302
             => \E u \in users' :
                  /\ u \notin users
                  /\ users' = users \cup {u}
                  /\ u.role = "user"
                  /\ session'[s].uid = u.id
                  /\ {x \in users' : x.id = session'[s].uid} = {u}
                  /\ \A x \in users : x.id < u.id ]_vars

\* C8 witness: a signup has created user 4 with role "user" and the session
\* is that user's
C8_Witness ==
  /\ resp.route = "POST /signup"
  /\ resp.code = 302
  /\ session["A"].uid = 4
  /\ \E u \in users : u.id = 4 /\ u.role = "user"

\* C9: GET /logout leaves the session without uid, counter and lockout and
\* the store unchanged; a session without uid is turned away by the gated
\* and the signed-in-only routes without a write; only POST /login and
\* POST /signup give a session a uid.
C9_LogoutClears ==
  [][ \A s \in Sessions :
        /\ (resp'.s = s /\ resp'.route = "GET /logout")
           => /\ session'[s].uid = UNDEF
              /\ session'[s].failed_login = UNDEF
              /\ session'[s].login_locked_until = UNDEF
              /\ UNCHANGED store
        /\ (session[s].uid = UNDEF /\ resp'.s = s
            /\ resp'.route \in AdminRoutes \cup StaffRoutes
                                 \cup {"POST /ticket"})
           => /\ resp'.code \in {302, 403}
              /\ UNCHANGED <<store, session>>
        /\ (session[s].uid = UNDEF /\ session'[s].uid # UNDEF)
           => resp'.route \in {"POST /login", "POST /signup"} ]_vars

\* C9 witness: a session that held a uid has logged out and is empty
C9_Witness ==
  /\ resp.route = "GET /logout"
  /\ "users.id" \in resp.q
  /\ session["A"] = [uid |-> UNDEF, failed_login |-> UNDEF,
                     login_locked_until |-> UNDEF]

\* C10: POST /staff/delete by a staff or admin principal removes the user
\* row and the Status, Targets and Metric rows of the id, leaves orders,
\* tickets and all other rows as they are, and changes nothing when no user
\* has the id.
C10_DeleteCascade ==
  [][ \A a \in AcceptInputs, id \in 0..MaxUserId :
        (StaffDelete("A", a, id) /\ Authorized("A", StaffOrAdmin))
        => /\ users' = {u \in users : u.id # id}
           /\ statuses' = {r \in statuses : r.user_id # id}
           /\ targets' = {r \in targets : r.user_id # id}
           /\ metrics' = {r \in metrics : r.user_id # id}
           /\ UNCHANGED <<orders, tickets, posts>>
           /\ (~ \E u \in users : u.id = id) => UNCHANGED store ]_vars

----------------------------------------------------------------------------
(* Blog views *)

\* the view count of post id in table rows
ViewsOf(rows, id) == (CHOOSE p \in rows : p.id = id).views

\* C11: GET /blog/:id of an existing post adds exactly 1 to that post's view
\* count, leaves every other post as it is and returns the post with the
\* count already incremented; for an id of no post it answers 404 and
\* changes no post; no step of any handler removes a post or lowers a view
\* count.
C11_BlogViews ==
  [][ /\ \A id \in PostIdInputs :
           BlogView("A", id) =>
             IF \E p \in posts : p.id = id
             THEN /\ posts' = {IF p.id = id
                               THEN [id |-> id, views |-> p.views + 1]
                               ELSE p : p \in posts}
                  /\ resp'.code = 200
                  /\ resp'.body = {[id |-> id,
                                    views |-> ViewsOf(posts, id) + 1]}
             ELSE /\ resp'.code = 404
                  /\ posts' = posts
      /\ \A p \in posts : \E r \in posts' : /\ r.id = p.id
                                            /\ r.views >= p.views ]_vars

\* C11 witness: a post created by the admin has been viewed twice, the
\* response shows the count 2, and a seeded post has been viewed once
C11_Witness ==
  /\ resp.route = "GET /blog/:id"
  /\ resp.body = {[id |-> 7, views |-> 2]}
  /\ [id |-> 1, views |-> 1] \in posts

----------------------------------------------------------------------------
(* Dashboard aggregates *)

\* the number of paid orders of plan i
PaidOrders(i) ==
  Cardinality({o \in orders : o.status = "paid" /\ o.plan_id = i})

\* the total accounting a dashboard response shows
ShownTotal(r) == (CHOOSE b \in r.body : TRUE).totalAccounting

\* C12: the total accounting the admin's dashboard shows is the sum of the
\* plan prices of the orders whose status is exactly "paid" (each plan's
\* price times the number of its paid orders): 0 with no such order, and an
\* order of any other status adds nothing.
C12_TotalAccounting ==
  [][ \A a \in AcceptInputs :
        (Dashboard("A", a) /\ Authorized("A", Admin))
        => /\ resp'.code = 200
           /\ ({o \in orders : o.status = "paid"} = {})
              => ShownTotal(resp') = 0
           /\ ShownTotal(resp') = Plans[1] * PaidOrders(1)
                                    + Plans[2] * PaidOrders(2)
                                    + Plans[3] * PaidOrders(3) ]_vars

\* C12 witness: the dashboard shows 69 for a paid order of plan 2 beside a
\* pending order of plan 1
C12_Witness ==
  /\ resp.route = "GET /dashboard"
  /\ resp.code = 200
  /\ ShownTotal(resp) = 69
  /\ {<<o.plan_id, o.status>> : o \in orders}
       = {<<1, "pending">>, <<2, "paid">>}

----------------------------------------------------------------------------
(* Checkout *)

\* the session resolves to a user
Authenticated(s) == authed(s) # {}

\* POST /checkout of an authenticated principal for an existing plan
\* inserts exactly one order: paid, of the principal, for the plan
CheckoutInserts(s, pl) ==
  (Authenticated(s) /\ pl \in DOMAIN Plans)
  => \E o \in orders' :
       /\ o.id \notin {x.id : x \in orders}
       /\ orders' = orders \cup {o}
       /\ o.status = "paid"
       /\ o.plan_id = pl
       /\ \E u \in authed(s) : o.user_id = u.id

\* an unauthenticated POST /checkout is sent to /login and inserts nothing
CheckoutAnonymous(s) ==
  ~Authenticated(s) => /\ resp'.code = 302
                       /\ resp'.loc = "/login"
                       /\ UNCHANGED store

\* GET /checkout never writes
CheckoutViewReads == \A pl \in PlanIdInputs :
                       CheckoutView("A", pl) => UNCHANGED store

\* C13 as stated: POST /checkout by an authenticated principal for an
\* existing plan inserts exactly one paid order of the principal for the
\* plan; an unauthenticated one is redirected to /login and inserts
\* nothing; one for a non-existent plan returns 404 and inserts nothing;
\* GET /checkout never writes to the store.
C13_Checkout ==
  [][ /\ \A pl \in PlanIdInputs :
           Checkout("A", pl) =>
             /\ CheckoutInserts("A", pl)
             /\ CheckoutAnonymous("A")
             /\ pl \notin DOMAIN Plans => /\ resp'.code = 404
                                          /\ UNCHANGED store
      /\ CheckoutViewReads ]_vars

\* C13 amended: as C13, but the 404 for a non-existent plan is the answer
\* to an authenticated principal; an unauthenticated POST /checkout is
\* redirected to /login whatever plan it names.
C13_CheckoutAuthFirst ==
  [][ /\ \A pl \in PlanIdInputs :
           Checkout("A", pl) =>
             /\ CheckoutInserts("A", pl)
             /\ CheckoutAnonymous("A")
             /\ (Authenticated("A") /\ pl \notin DOMAIN Plans)
                => /\ resp'.code = 404
                   /\ UNCHANGED store
      /\ CheckoutViewReads ]_vars

\* C13 witness: the seeded user has bought plan 2 and been answered 404
\* for a plan that does not exist
C13_Witness ==
  /\ resp.route = "POST /checkout"
  /\ resp.code = 404
  /\ session["A"].uid = 3
  /\ \E o \in orders : o.user_id = 3 /\ o.plan_id = 2 /\ o.status = "paid"

----------------------------------------------------------------------------
(* requireRole *)

\* the user rows with the session's uid and a role among roles
Permitted(s, roles) ==
  {u \in users : u.id = session[s].uid /\ u.role \in roles}

\* C14: requireRole returns the principal exactly when the session's uid is
\* the id of an existing user whose role is among the allowed roles;
\* otherwise it returns no principal and has sent a response: a redirect to
\* /login when the Accept header includes text/html, a 403 otherwise.
C14_RequireRole ==
  \A accept \in AcceptHeaders, roles \in {Admin, StaffOrAdmin} :
    LET g == requireRole("A", accept, roles)
    IN IF Permitted("A", roles) # {}
       THEN g.me = Permitted("A", roles) /\ ~g.sent
       ELSE /\ g.me = {}
            /\ g.sent
            /\ g.code = IF \E i \in DOMAIN accept : accept[i] = "text/html"
                        THEN 302 ELSE 403

\* C14 witness: a session whose uid is the id of a deleted user has been
\* refused with 403
C14_Witness ==
  /\ session["A"].uid = 2
  /\ ~ \E u \in users : u.id = 2
  /\ resp.code = 403

----------------------------------------------------------------------------
(* Roles *)

\* C15: in every reachable state every user's role is one of user, staff,
\* admin, whatever the bodies of the signup, staff-add, promote, demote
\* and /admin/assign_role requests were.
C15_RoleDomain == \A u \in users : u.role \in {"user", "staff", "admin"}

\* the routes that write users.role, with the roles allowed to use them
RoleWriters ==
  {<<"POST /admin/assign_role", {"admin"}>>,
   <<"POST /staff/promote", {"staff", "admin"}>>,
   <<"POST /staff/demote", {"staff", "admin"}>>}

\* C16: the role of an existing user row changes only in a step of
\* /admin/assign_role made by a principal whose role is admin, or of
\* /staff/promote or /staff/demote made by a principal whose role is staff
\* or admin; every other handler leaves every existing user's role as it
\* is.
C16_RoleFrame ==
  [][ (\E u \in users, v \in users' : u.id = v.id /\ u.role # v.role)
      => \E w \in RoleWriters :
           /\ resp'.route = w[1]
           /\ \E me \in users : /\ me.id = session[resp'.s].uid
                                 /\ me.role \in w[2] ]_vars

\* C16 witness: a staff principal has promoted the seeded user, who has
\* since bought a plan without a change of role
C16_Witness ==
  /\ \E u \in users : u.id = 3 /\ u.role = "staff"
  /\ session["A"].uid = 3
  /\ resp.route = "POST /checkout"
  /\ orders # {}

----------------------------------------------------------------------------
(* Dependent rows *)

\* C17: in every reachable state every existing user has a Status row and
\* a Targets row, whether the user was created by signup or by staff-add.
C17_UserHasRows ==
  \A u \in users : /\ \E r \in statuses : r.user_id = u.id
                   /\ \E r \in targets : r.user_id = u.id

\* C18: in every reachable state, also after the server has started again
\* and initDb has run on the existing database, each user has at most one
\* Status row and at most one Targets row.
C18_OneToOne ==
  \A u \in users :
    /\ Cardinality({r \in statuses : r.user_id = u.id}) <= 1
    /\ Cardinality({r \in targets : r.user_id = u.id}) <= 1

----------------------------------------------------------------------------
(* Metrics *)

\* C19: in every reachable state each metric row's user_id is the id of a
\* user row that exists, whatever user_id the /staff/metrics and
\* /performance/:userId requests named.
C19_MetricsBelong ==
  \A r \in metrics : \E u \in users : u.id = r.user_id

\* the number a text of MetricTexts stands for, where it is one
Stated == [t \in {NoText, <<"7">>, <<"1", "2">>, <<"-", "3">>} |->
             CASE t = NoText -> 0 [] t = <<"7">> -> 7
               [] t = <<"1", "2">> -> 12 [] t = <<"-", "3">> -> -3]

\* max(0, n)
Clamped(n) == IF n < 0 THEN 0 ELSE n

\* C20: POST /staff/metrics by a staff or admin principal with a non-zero
\* user_id appends exactly one metric row, with likes = max(0, add_likes)
\* and follows = max(0, add_follows), a missing value counting as 0, so
\* the row has likes >= 0 and follows >= 0; no existing row is updated or
\* deleted; with a missing or zero user_id nothing is inserted.
C20_MetricsAppend ==
  [][ \A a \in AcceptInputs, id \in TargetIds, l \in MetricTexts,
         f \in {NoText, <<"7">>, <<"x">>} :
        (StaffMetrics("A", a, id, l, f)
           /\ Authorized("A", {"staff", "admin"}))
        => IF id = 0 THEN metrics' = metrics
           ELSE \E r \in metrics' :
                  /\ r.id \notin {x.id : x \in metrics}
                  /\ metrics' = metrics \cup {r}
                  /\ r.user_id = id
                  /\ r.likes >= 0
                  /\ r.follows >= 0
                  /\ l \in DOMAIN Stated => r.likes = Clamped(Stated[l])
                  /\ f \in DOMAIN Stated => r.follows = Clamped(Stated[f])
    ]_vars

----------------------------------------------------------------------------
(* Staff-add *)

\* C21: POST /staff/add by a staff or admin principal creates one user
\* whose role is exactly "staff" and whose email is the submitted one in
\* lower case; when the email already belongs to a user no row of any
\* table is created or modified and the response is the same redirect to
\* /staff; with a missing email or password nothing is created.
C21_StaffAdd ==
  [][ \A a \in AcceptInputs, e \in {NoEmail, UserEmailMixed, NewEmailMixed},
         p \in SignupPasswords :
        (StaffAdd("A", a, e, p) /\ Authorized("A", {"staff", "admin"}))
        => /\ resp'.code = 302
           /\ resp'.loc = "/staff"
           /\ IF e = NoEmail \/ p = ""
                 \/ \E u \in users : SameIgnoringCase(u.email, e)
              THEN UNCHANGED store
              ELSE \E u \in users' :
                     /\ u.id \notin {x.id : x \in users}
                     /\ users' = users \cup {u}
                     /\ u.role = "staff"
                     /\ SameIgnoringCase(u.email, e)
                     /\ \A i \in DOMAIN u.email :
                          ~ \E k \in 1..26 : UpperCase[k] = u.email[i]
                     /\ u.password_hash = sha256(p) ]_vars

\* C21 witness: a staff member added with the email A@b exists, and a
\* later staff-add in the same state of the store was answered
C21_Witness ==
  /\ \E u \in users : u.role = "staff" /\ u.email = NewEmail
  /\ resp.route = "POST /staff/add"
  /\ resp.code = 302
  /\ "users.email" \notin resp.q

----------------------------------------------------------------------------
(* Interleaved staff requests *)

\* while two requests run, the user they work on, if there is one, has the
\* role and the flag that the last UPDATE statement wrote
LastWriteWins ==
  proc.pc = "race"
  => \A u \in users :
       u.id = proc.id
       => /\ proc.lastRole # "" => u.role = proc.lastRole
          /\ proc.lastFlag # UNDEF => u.unsubscribed = proc.lastFlag

\* C22: when the statements of two staff requests on one user (any two of
\* promote, demote, delete, toggle_unsubscribe) interleave, the user's role
\* and unsubscribed flag are those the last write statement wrote, a
\* deleted user row is never created again, emails stay unique and every
\* role stays one of user, staff, admin.
C22_LastWriteWins ==
  /\ [](LastWriteWins /\ EmailsUniqueLower
         /\ \A u \in users : u.role \in {"user", "staff", "admin"})
  /\ [][ {u.id : u \in users'} \subseteq {u.id : u \in users} ]_vars

\* C22 witness: a toggle and a promote of user 3 have interleaved, both are
\* answered, and the user is a subscribed-off staff member
C22_Witness ==
  /\ proc.pc = "race"
  /\ {proc.reqs[1].op, proc.reqs[2].op} = {"promote", "toggle_unsubscribe"}
  /\ \A i \in 1..2 : proc.reqs[i].pc = "done"
  /\ \E u \in users : u.id = 3 /\ u.role = "staff" /\ u.unsubscribed = 1

----------------------------------------------------------------------------
(* Performance pages *)

\* a performance view of user id seeds six rows, in the stated pattern and
\* order, when the user has no metric row, renders the user's rows, and
\* inserts nothing when the user has one
SeedsOnce(id) ==
  IF \E m \in metrics : m.user_id = id
  THEN /\ metrics' = metrics
       /\ resp'.body = {m \in metrics : m.user_id = id}
  ELSE \E first \in 1..(MaxMetricId + 2) :
         /\ \A m \in metrics : m.id < first
         /\ metrics' = metrics \cup
                         {[id |-> first + i, user_id |-> id,
                           likes |-> <<10, 15, 20, 25, 30, 35>>[i + 1],
                           follows |-> <<8, 11, 14, 17, 20, 23>>[i + 1]] :
                            i \in 0..5}
         /\ Cardinality(metrics') = Cardinality(metrics) + 6
         /\ resp'.body = metrics' \ metrics

\* C23: GET /performance and GET /performance/:userId, for a user without
\* metric rows, insert exactly six rows with (likes, follows) =
\* (10+5i, 8+3i), i = 0..5, in that order, and render those six; for a
\* user with a metric row they insert nothing, so a second view seeds
\* nothing.
C23_SeedsOnce ==
  [][ \A a \in AcceptInputs :
        /\ \A id \in {3, 4} :
             (PerformanceUser("B", a, id)
                /\ Authorized("B", {"staff", "admin"})
                /\ \E u \in users : u.id = id)
             => (resp'.code = 200 /\ SeedsOnce(id))
        /\ (Performance("B", a) /\ Authorized("B", {"staff", "admin"}))
           => (resp'.code = 200 /\ SeedsOnce(session["B"].uid)) ]_vars

\* C23 witness: user 4, whose signup left it without a metric row, has
\* been viewed: six rows are its metrics, the newest of the table, and
\* they are rendered
C23_Witness ==
  /\ resp.route = "GET /performance/:userId"
  /\ resp.code = 200
  /\ Cardinality(resp.body) = 6
  /\ resp.body = {m \in metrics : m.user_id = 4}
  /\ resp.q # {}
  /\ \E m \in metrics : m.user_id = 4 /\ m.id = seq.metrics

----------------------------------------------------------------------------
(* Unsubscribed flag *)

\* 0 for 1 and 1 for 0
Flipped(flag) == 1 - flag

\* C24: POST /staff/toggle_unsubscribe by a staff or admin principal flips
\* the target user's unsubscribed flag between 0 and 1 and changes nothing
\* else; toggling twice in a row gives back the users table as it was;
\* toggling an id of no user changes nothing.
C24_Toggle ==
  /\ [](\A id \in ToggleIds :
          /\ Toggled(Toggled(users, id), id) = users
          /\ \A u \in users : u.unsubscribed \in {0, 1})
  /\ [][ \A a \in AcceptInputs, id \in ToggleIds :
           (ToggleUnsubscribe("A", a, id)
              /\ Authorized("A", {"staff", "admin"}))
           => /\ UNCHANGED <<statuses, targets, metrics, orders, tickets,
                             posts, seq, session>>
              /\ IF \E u \in users : u.id = id
                 THEN \E u \in users, v \in users' :
                        /\ u.id = id
                        /\ v = [u EXCEPT !.unsubscribed = Flipped(@)]
                        /\ users' = (users \ {u}) \cup {v}
                 ELSE users' = users ]_vars

\* C24 witness: a toggle was answered by the redirect while the added
\* user 4 is unsubscribed, the staff member is subscribed and user 3 is
\* deleted
C24_Witness ==
  /\ resp.route = "POST /staff/toggle_unsubscribe"
  /\ resp.code = 302
  /\ \E u \in users : u.id = 4 /\ u.unsubscribed = 1
  /\ \E u \in users : u.id = 2 /\ u.unsubscribed = 0
  /\ ~ \E u \in users : u.id = 3

----------------------------------------------------------------------------
(* Admins *)

\* the ids of the users whose role is admin
Admins == {u.id : u \in {v \in users : v.role = "admin"}}

\* the response is that of a handler, not of the gate
PassedGate(r) == ~ (r.code = 403 \/ (r.code = 302 /\ r.loc = "/login"))

\* C25: a request adds a user to those of role admin only when it is
\* POST /admin/assign_role of a session whose user has role admin at that
\* time, and a request to an admin route is served only for such a
\* session: signup, staff/add, promote, demote, delete and logins from
\* sessions of no user, of role user or of role staff make no admin.
C25_AdminGrowth ==
  [][ \A s \in Sessions :
        resp'.s = s =>
          /\ ~ (Admins' \subseteq Admins)
               => /\ resp'.route = "POST /admin/assign_role"
                  /\ Authorized(s, {"admin"})
          /\ (resp'.route \in AdminRoutes /\ PassedGate(resp'))
               => Authorized(s, {"admin"}) ]_vars

\* C25 witness: the seeded user, made admin by the seeded admin, has in
\* turn made the seeded staff member admin from their own session
C25_Witness ==
  /\ resp.route = "POST /admin/assign_role"
  /\ resp.loc = "/dashboard"
  /\ session["A"].uid = 3
  /\ Admins = {1, 2, 3}

----------------------------------------------------------------------------
(* The role is read at every request *)

\* the stored role of the session's user is staff or admin now
StaffNow(s) ==
  \E u \in users : u.id = session[s].uid /\ u.role \in {"staff", "admin"}

\* C26: whether a request to a staff route passes the gate depends on the
\* role stored for the session's user at that request, not on the role it
\* had when the session logged in: the session of a staff member who has
\* been demoted (or assigned role user) is rejected at its next request and
\* that request writes nothing; the session of a user who has been promoted
\* passes without a new login.
C26_RoleRead ==
  [][ \A s \in Sessions :
        (resp'.s = s /\ resp'.route \in StaffRoutes)
        => IF StaffNow(s)
           THEN PassedGate(resp')
           ELSE /\ ~PassedGate(resp')
                /\ UNCHANGED <<store, session>> ]_vars

\* C26 witness: session A, logged in as the staff member, promoted the
\* user of session B; B, never logging in again, demoted the staff member,
\* and A's next request to a staff route was rejected
C26_Witness ==
  /\ resp.s = "A"
  /\ resp.route = "POST /staff/toggle_unsubscribe"
  /\ ~PassedGate(resp)
  /\ session["A"].uid = 2
  /\ session["B"].uid = 3
  /\ \E u \in users : u.id = 2 /\ u.role = "user"
  /\ \E u \in users : u.id = 3 /\ u.role = "staff"

----------------------------------------------------------------------------
(* Sessions of deleted users *)

\* the session carries a uid that is the id of no user: its user was
\* deleted (a uid is only ever set to the id of a stored user)
Dangling(s) ==
  /\ Truthy(session[s].uid)
  /\ ~ \E u \in users : u.id = session[s].uid

\* C27: a session whose uid is the id of a deleted user stays so whatever
\* accounts are created later (no insert reuses the id), and until the
\* session itself logs in or signs up its requests are those of nobody:
\* role-gated routes reject them, POST /checkout redirects to /login,
\* POST /ticket answers 403, and none of them writes.
C27_DeletedStaysOut ==
  [][ \A s \in Sessions :
        Dangling(s) =>
          /\ session'[s].uid = session[s].uid
               => ~ \E u \in users' : u.id = session[s].uid
          /\ resp'.s = s =>
               /\ resp'.route \in AdminRoutes \cup StaffRoutes
                    => ~PassedGate(resp') /\ UNCHANGED store
               /\ resp'.route = "POST /checkout"
                    => /\ resp'.code = 302
                       /\ resp'.loc = "/login"
                       /\ UNCHANGED store
               /\ resp'.route = "POST /ticket"
                    => resp'.code = 403 /\ UNCHANGED store ]_vars

\* C27 witness: user 3 was deleted while session A carried its id, an
\* account was created afterwards with id 4, and A's ticket was answered
\* 403
C27_Witness ==
  /\ resp.s = "A"
  /\ resp.route = "POST /ticket"
  /\ resp.code = 403
  /\ session["A"].uid = 3
  /\ ~ \E u \in users : u.id = 3
  /\ \E u \in users : u.id = 4 /\ u.email = toLowerCase(NewEmailMixed)

----------------------------------------------------------------------------
(* After a lockout *)

\* the session's lockout has run out: a lock time is set and has passed
Expired(s) ==
  /\ session[s].login_locked_until > 0
  /\ now >= session[s].login_locked_until

\* failed_login as the handler reads it: 0 when absent
FailedCount(ses) == IF ses.failed_login > 0 THEN ses.failed_login ELSE 0

\* this step is a POST /login of s that failed on the credentials
FailedLogin(s) ==
  /\ \E c \in Credentials : Login(s, c[1], c[2])
  /\ resp'.msg = "Invalid credentials"

\* C28: the end of a lockout does not reset the counter: a session with a
\* lock time, run out or not, has a counter of at least 6; the first failed
\* POST /login after the lock has run out counts one more and sets a new
\* lock of 5 minutes at once; the counter comes back below 6 only by a
\* successful login or by a logout.
C28_ExpiryKeepsCount ==
  /\ [](\A s \in Sessions :
          session[s].login_locked_until > 0
          => session[s].failed_login >= LockThreshold)
  /\ [][ \A s \in Sessions :
           /\ (Expired(s) /\ FailedLogin(s))
               => /\ session'[s].failed_login = session[s].failed_login + 1
                  /\ session'[s].login_locked_until = now' + LockMs
                  /\ now' < session'[s].login_locked_until
           /\ (FailedCount(session[s]) >= LockThreshold
                 /\ FailedCount(session'[s]) < LockThreshold)
               => /\ resp'.s = s
                  /\ \/ resp'.route = "GET /logout"
                     \/ /\ resp'.route = "POST /login"
                        /\ resp'.code = 302 ]_vars

\* C28 witness: the 7th failure, made after the first lock had run out,
\* has set a second lock
C28_Witness ==
  /\ resp.route = "POST /login"
  /\ resp.msg = "Invalid credentials"
  /\ session["A"].failed_login = LockThreshold + 1
  /\ session["A"].login_locked_until >= 2 * LockMs
  /\ now < session["A"].login_locked_until

----------------------------------------------------------------------------
(* Orders *)

\* C29: every order has status "paid" and the plan_id of a plan that
\* exists, so the pending count and the declined-or-cancelled count of the
\* dashboard are 0; orders are added only by POST /checkout and no request
\* changes or removes one, so total accounting never decreases.
C29_OrdersPaid ==
  /\ [](\A o \in orders : o.status = "paid" /\ o.plan_id \in DOMAIN Plans)
  /\ [](DashboardStats.pendingOrders = 0 /\ DashboardStats.declinedCount = 0)
  /\ [][ /\ orders \subseteq orders'
         /\ DashboardStats'.totalAccounting >= DashboardStats.totalAccounting
         /\ orders' # orders => resp'.route = "POST /checkout" ]_vars

\* C29 witness: the admin's dashboard shows the price of the order of a
\* buyer who has since been deleted, and no pending or declined order
C29_Witness ==
  /\ resp.route = "GET /dashboard"
  /\ resp.code = 200
  /\ \E b \in resp.body : /\ b.totalAccounting = Plans[2]
                           /\ b.pendingOrders = 0
                           /\ b.declinedCount = 0
  /\ \E o \in orders : o.user_id = 3
  /\ ~ \E u \in users : u.id = 3

----------------------------------------------------------------------------
(* Lockout is per session *)

\* what a POST /login with credentials c, arriving at t and reading the
\* clock again at t2, answers and leaves in a session ses: a function of
\* that session, the users table and the clock, and of no other session
LoginOutcome(ses, c, t, t2) ==
  IF Truthy(ses.login_locked_until) /\ t < ses.login_locked_until
  THEN [session |-> ses, code |-> 200, loc |-> "",
        msg |-> "Too many attempts",
        wait |-> Ceil(ses.login_locked_until - t2, 1000)]
  ELSE IF Matching(c) # {}
  THEN LET row == CHOOSE u \in Matching(c) : TRUE
       IN [session |-> [uid |-> row.id, failed_login |-> 0,
                        login_locked_until |-> NULL],
           code |-> 302, msg |-> "", wait |-> 0,
           loc |-> IF row.role = "admin" THEN "/dashboard"
                   ELSE IF row.role = "staff" THEN "/staff" ELSE "/"]
  ELSE LET n == FailedCount(ses) + 1
       IN [session |-> [ses EXCEPT !.failed_login = n,
                                   !.login_locked_until =
                                      IF n >= LockThreshold THEN t2 + LockMs
                                      ELSE @],
           code |-> 200, loc |-> "", msg |-> "Invalid credentials",
           wait |-> 0]

\* the lockout fields of a session
LockoutFields(ses) == <<ses.failed_login, ses.login_locked_until>>

\* C30: the failed-attempt counter and the lock time of a session are
\* changed only by a request of that session, and what a POST /login
\* answers and leaves in its session is determined by that session, the
\* users table and the clock: whatever the attempts made in another
\* session, for the same email or not, the outcome is the same.
C30_PerSession ==
  [][ \A s \in Sessions :
        /\ LockoutFields(session'[s]) # LockoutFields(session[s])
             => /\ resp'.s = s
                /\ resp'.route \in {"POST /login", "GET /logout"}
        /\ \A c \in LockoutCredentials :
             Login(s, c[1], c[2])
             => LET o == LoginOutcome(session[s], c, now, now')
                IN /\ session'[s] = o.session
                   /\ resp'.code = o.code
                   /\ resp'.loc = o.loc
                   /\ resp'.msg = o.msg
                   /\ resp'.wait = o.wait ]_vars

\* C30 witness: session A is locked out by its failures on the seeded
\* user's email, and session B has logged in as that user
C30_Witness ==
  /\ resp.s = "B"
  /\ resp.route = "POST /login"
  /\ resp.code = 302
  /\ session["B"].uid = 3
  /\ session["B"].failed_login = 0
  /\ session["A"].failed_login >= LockThreshold
  /\ now < session["A"].login_locked_until

====
